---- MODULE Spec2Model ----
(***************************************************************************)
(* LaserGCODETools: the motion program parser (GCodeParser), its geometry  *)
(* utilities and the speed corrector (GCodeCorrector).                     *)
(*                                                                         *)
(* Text is a sequence of one-character strings, so that split, trim,       *)
(* indexOf and the regular expressions of the source are computed          *)
(* character by character.  Numbers are exact rationals [n, d] in lowest   *)
(* terms (d > 0); the rounding error of IEEE doubles is not modelled.      *)
(***************************************************************************)
EXTENDS Integers, Sequences, FiniteSets, TLC

\* ---------------------------------------------------------------- bounds
MaxLines == 3

\* ------------------------------------------------------------- rationals
RECURSIVE Gcd(_, _)
Gcd(a, b) == IF b = 0 THEN a ELSE Gcd(b, a % b)

Abs(i) == IF i < 0 THEN -i ELSE i

Sign(i) == IF i < 0 THEN -1 ELSE IF i > 0 THEN 1 ELSE 0

\* the rational a/b in lowest terms with a positive denominator; a/0 is
\* Infinity, -Infinity or NaN as in IEEE division
Rat(a, b) ==
    IF b = 0 THEN [n |-> Sign(a), d |-> 0]
    ELSE LET g == Gcd(Abs(a), Abs(b))
             s == IF b < 0 THEN -1 ELSE 1
         IN  [n |-> (s * a) \div g, d |-> (s * b) \div g]

Zero == [n |-> 0, d |-> 1]
One == [n |-> 1, d |-> 1]

\* JavaScript's undefined for an optional number: no rational has d = 0
Undefined == [n |-> 0, d |-> 0]

\* not a number; it shares the representation of undefined, which no
\* operation of the model tells apart from it (x || 0 is 0 for both)
NaN == [n |-> 0, d |-> 0]

\* the arithmetic cancels common factors before it multiplies
DenGcd(p, q) == IF p.d = 0 /\ q.d = 0 THEN 1 ELSE Gcd(p.d, q.d)

RAdd(p, q) ==
    IF p.d = 0 \/ q.d = 0
    THEN IF p = NaN \/ q = NaN \/ (p.d = 0 /\ q.d = 0 /\ p.n # q.n) THEN NaN
         ELSE IF p.d = 0 THEN p ELSE q
    ELSE LET g == DenGcd(p, q)
         IN  Rat(p.n * (q.d \div g) + q.n * (p.d \div g), (p.d \div g) * q.d)

RNeg(p) == [n |-> -p.n, d |-> p.d]
RSub(p, q) == RAdd(p, RNeg(q))

RMul(p, q) ==
    IF p.d = 0 \/ q.d = 0 THEN [n |-> Sign(p.n) * Sign(q.n), d |-> 0]
    ELSE LET a == Rat(p.n, q.d)
             b == Rat(q.n, p.d)
         IN  Rat(a.n * b.n, a.d * b.d)

\* p / q
RDiv(p, q) == RMul(p, Rat(q.d, q.n))
RAbs(p) == [n |-> Abs(p.n), d |-> p.d]

RLess(p, q) ==
    LET g == DenGcd(p, q)
    IN  p.n * (q.d \div g) < q.n * (p.d \div g)

RLeq(p, q) == p # NaN /\ q # NaN /\ ~RLess(q, p)

\* ------------------------------------------------------------ characters
Digits == {"0", "1", "2", "3", "4", "5", "6", "7", "8", "9"}
WhiteSpace == {" ", "\t", "\r"}

DigitVal(c) ==
    CASE c = "0" -> 0 [] c = "1" -> 1 [] c = "2" -> 2 [] c = "3" -> 3
      [] c = "4" -> 4 [] c = "5" -> 5 [] c = "6" -> 6 [] c = "7" -> 7
      [] c = "8" -> 8 [] c = "9" -> 9

DigitChar(v) == <<"0", "1", "2", "3", "4", "5", "6", "7", "8", "9">>[v + 1]

\* s.slice(a, b) with 1-based inclusive bounds; empty when b < a
Slice(s, a, b) == IF b < a THEN <<>> ELSE SubSeq(s, a, b)

\* 1-based index of the first occurrence of character c in s, 0 when absent
\* (String.prototype.indexOf returns the 0-based index, or -1)
RECURSIVE IndexFrom(_, _, _)
IndexFrom(s, c, i) ==
    IF i > Len(s) THEN 0
    ELSE IF s[i] = c THEN i
    ELSE IndexFrom(s, c, i + 1)

indexOf(s, c) == IndexFrom(s, c, 1)

\* String.prototype.split('\n'): always at least one piece
RECURSIVE split(_)
split(s) ==
    LET k == indexOf(s, "\n")
    IN  IF k = 0 THEN <<s>>
        ELSE <<Slice(s, 1, k - 1)>> \o split(Slice(s, k + 1, Len(s)))

RECURSIVE TrimStart(_)
TrimStart(s) ==
    IF s # <<>> /\ Head(s) \in WhiteSpace THEN TrimStart(Tail(s)) ELSE s

RECURSIVE TrimEnd(_)
TrimEnd(s) ==
    IF s # <<>> /\ s[Len(s)] \in WhiteSpace
    THEN TrimEnd(Slice(s, 1, Len(s) - 1)) ELSE s

trim(s) == TrimEnd(TrimStart(s))

\* number of consecutive decimal digits of s starting at position i
RECURSIVE DigitRun(_, _)
DigitRun(s, i) ==
    IF i <= Len(s) /\ s[i] \in Digits THEN 1 + DigitRun(s, i + 1) ELSE 0

RECURSIVE DigitsValue(_)
DigitsValue(ds) ==
    IF ds = <<>> THEN 0
    ELSE 10 * DigitsValue(Slice(ds, 1, Len(ds) - 1)) + DigitVal(ds[Len(ds)])

RECURSIVE Pow10(_)
Pow10(k) == IF k = 0 THEN 1 ELSE 10 * Pow10(k - 1)

\* parseFloat of a string matched by [+-]?\d*\.?\d+
parseFloat(t) ==
    LET neg == t[1] = "-"
        u == IF t[1] \in {"+", "-"} THEN Tail(t) ELSE t
        k == indexOf(u, ".")
        ip == IF k = 0 THEN u ELSE Slice(u, 1, k - 1)
        fp == IF k = 0 THEN <<>> ELSE Slice(u, k + 1, Len(u))
        m == DigitsValue(ip) * Pow10(Len(fp)) + DigitsValue(fp)
    IN  Rat(IF neg THEN -m ELSE m, Pow10(Len(fp)))

\* `${n}` for an integer n
RECURSIVE NatString(_)
NatString(v) ==
    IF v < 10 THEN <<DigitChar(v)>>
    ELSE NatString(v \div 10) \o <<DigitChar(v % 10)>>

IntString(v) == IF v < 0 THEN <<"-">> \o NatString(-v) ELSE NatString(v)

\* Math.round: the nearest integer, a tie going towards +Infinity
MathRound(p) == (2 * p.n + p.d) \div (2 * p.d)

\* ------------------------------------------------------------ GCodeParser
VARIABLES
    gcode,            \* the program text handed to parseGCode / applyCorrection
    currentPosition,  \* GCodeParser.currentPosition
    paths,            \* GCodeParser.paths
    commands,         \* GCodeParser.commands
    currentFeedrate,  \* modal feed rate of the parser
    laserOn,          \* modal laser state of the parser
    currentPower,     \* modal laser power of the parser
    parsed,           \* TRUE once parseGCode has run on gcode
    segments,         \* the segment list handed to TimeEstimator.estimateTime
    out               \* the last geometry/corrector/estimator call: its
                      \* arguments and result

vars == <<gcode, currentPosition, paths, commands, currentFeedrate, laserOn,
          currentPower, parsed, segments, out>>

Origin == [x |-> Zero, y |-> Zero]

\* the comment field of a command whose line has no ';'
NoComment == <<"undefined">>

\* parseCommand returning null
NoCommand == [code |-> <<>>, params |-> <<>>, lineNumber |-> -1,
              comment |-> NoComment]

\* the parameter letters of the regular expression of parseCommand
ParamLetters == {"X", "Y", "Z", "I", "J", "K", "F"}

\* the laser power letter, which the parameter alphabet also contains
PowerLetters == {"S"}

\* last position of a match of [+-]?\d*\.?\d+ starting at j, 0 when none
NumberEnd(s, j) ==
    LET j1 == IF j <= Len(s) /\ s[j] \in {"+", "-"} THEN j + 1 ELSE j
        d1 == DigitRun(s, j1)
        dot == j1 + d1
        d2 == IF dot <= Len(s) /\ s[dot] = "." THEN DigitRun(s, dot + 1) ELSE 0
    IN  IF d2 >= 1 THEN dot + d2
        ELSE IF d1 >= 1 THEN j1 + d1 - 1
        ELSE 0

\* line.matchAll(/([XYZIJKF])([+-]?\d*\.?\d+)/g) folded into params: matches
\* are taken left to right without overlap, a later match of a letter
\* overwrites an earlier one
RECURSIVE ScanParams(_, _, _)
ScanParams(line, i, params) ==
    IF i > Len(line) THEN params
    ELSE IF line[i] \in ParamLetters \cup PowerLetters
         THEN LET e == NumberEnd(line, i + 1)
              IN  IF e = 0 THEN ScanParams(line, i + 1, params)
                  ELSE ScanParams(line, e + 1,
                         [k \in DOMAIN params \cup {line[i]} |->
                            IF k = line[i]
                            THEN parseFloat(Slice(line, i + 1, e))
                            ELSE params[k]])
    ELSE ScanParams(line, i + 1, params)

parseCommand(line, lineNumber, comment) ==
    IF ~(line # <<>> /\ line[1] \in {"G", "M"} /\ DigitRun(line, 2) >= 1)
    THEN NoCommand
    ELSE [code |-> Slice(line, 1, 1 + DigitRun(line, 2)),
          params |-> ScanParams(line, 1, <<>>),
          lineNumber |-> lineNumber,
          comment |-> comment]

G0 == <<"G", "0">>
G1 == <<"G", "1">>
M3 == <<"M", "3">>
M5 == <<"M", "5">>

HasParam(command, k) == k \in DOMAIN command.params

\* a parser object: the fields of GCodeParser
FreshParser ==
    [currentPosition |-> Origin, paths |-> <<>>, commands |-> <<>>,
     currentFeedrate |-> Undefined, laserOn |-> FALSE,
     currentPower |-> Undefined]

\* a feed rate that lasts for its own command only
modalFeedrateNotSticky(st, command) ==
    IF HasParam(command, "F") THEN command.params["F"] ELSE Undefined

\* modal feed rate after a command: sticky, replaced by the command's F
modalFeedrate(st, command) ==
    IF HasParam(command, "F") THEN command.params["F"] ELSE st.currentFeedrate

\* modal laser state after a command: M3 switches on and takes S as the
\* power, M5 switches off
modalLaserOn(st, command) ==
    IF command.code = M3 THEN TRUE
    ELSE IF command.code = M5 THEN FALSE
    ELSE st.laserOn

modalPower(st, command) ==
    IF command.code = M3 /\ HasParam(command, "S") THEN command.params["S"]
    ELSE st.currentPower

\* the modal snapshot and back-reference a segment carries besides its
\* geometry
attachModal(path, st, command) ==
    [start |-> path.start, end |-> path.end, isRapid |-> path.isRapid,
     feedrate |-> st.currentFeedrate, laserOn |-> st.laserOn,
     power |-> st.currentPower, command |-> command]

\* a processCommand that emits no segment for a move that stays in place
processCommandSkipsZeroLength(st0, command) ==
    LET st == [st0 EXCEPT !.currentFeedrate = modalFeedrate(st0, command),
                          !.laserOn = modalLaserOn(st0, command),
                          !.currentPower = modalPower(st0, command)]
    IN  IF command.code = G0 \/ command.code = G1
        THEN LET newPosition ==
                   [x |-> IF HasParam(command, "X") THEN command.params["X"]
                          ELSE st.currentPosition.x,
                    y |-> IF HasParam(command, "Y") THEN command.params["Y"]
                          ELSE st.currentPosition.y]
                 path == [start |-> st.currentPosition, end |-> newPosition,
                          isRapid |-> command.code = G0]
             IN  IF newPosition = st.currentPosition THEN st
                 ELSE [st EXCEPT !.paths = Append(@, attachModal(path, st, command)),
                                 !.currentPosition = newPosition]
        ELSE st

\* processCommand that forgets to advance the current position
processCommandKeepsPosition(st0, command) ==
    LET st == [st0 EXCEPT !.currentFeedrate = modalFeedrate(st0, command),
                          !.laserOn = modalLaserOn(st0, command),
                          !.currentPower = modalPower(st0, command)]
    IN  IF command.code = G0 \/ command.code = G1
        THEN LET newPosition ==
                   [x |-> IF HasParam(command, "X") THEN command.params["X"]
                          ELSE st.currentPosition.x,
                    y |-> IF HasParam(command, "Y") THEN command.params["Y"]
                          ELSE st.currentPosition.y]
                 path == [start |-> st.currentPosition, end |-> newPosition,
                          isRapid |-> command.code = G0]
             IN  [st EXCEPT !.paths = Append(@, attachModal(path, st, command))]
        ELSE st

processCommand(st0, command) ==
    LET st == [st0 EXCEPT !.currentFeedrate = modalFeedrate(st0, command),
                          !.laserOn = modalLaserOn(st0, command),
                          !.currentPower = modalPower(st0, command)]
    IN  IF command.code = G0 \/ command.code = G1
        THEN LET newPosition ==
                   [x |-> IF HasParam(command, "X") THEN command.params["X"]
                          ELSE st.currentPosition.x,
                    y |-> IF HasParam(command, "Y") THEN command.params["Y"]
                          ELSE st.currentPosition.y]
                 path == [start |-> st.currentPosition, end |-> newPosition,
                          isRapid |-> command.code = G0]
             IN  [st EXCEPT !.paths = Append(@, attachModal(path, st, command)),
                            !.currentPosition = newPosition]
        ELSE st

\* parseLine that reads a line without a command token as a repetition of
\* the previous command with new parameters
parseLineRepeatsCommand(st, line, index) ==
    LET commentIndex == indexOf(line, ";")
        comment == IF commentIndex # 0
                   THEN trim(Slice(line, commentIndex + 1, Len(line)))
                   ELSE NoComment
        cleanLine == IF commentIndex # 0
                     THEN trim(Slice(line, 1, commentIndex - 1))
                     ELSE trim(line)
        command == parseCommand(cleanLine, index, comment)
        repeated == [code |-> st.commands[Len(st.commands)].code,
                     params |-> ScanParams(cleanLine, 1, <<>>),
                     lineNumber |-> index, comment |-> comment]
    IN  IF cleanLine = <<>> THEN st
        ELSE IF command.code = <<>>
             THEN IF Len(st.commands) = 0 THEN st
                  ELSE processCommand([st EXCEPT !.commands = Append(@, repeated)],
                                      repeated)
        ELSE processCommand([st EXCEPT !.commands = Append(@, command)],
                            command)

\* the body of lines.forEach in parseGCode, for the line of 0-based index
parseLine(st, line, index) ==
    LET commentIndex == indexOf(line, ";")
        comment == IF commentIndex # 0
                   THEN trim(Slice(line, commentIndex + 1, Len(line)))
                   ELSE NoComment
        cleanLine == IF commentIndex # 0
                     THEN trim(Slice(line, 1, commentIndex - 1))
                     ELSE trim(line)
        command == parseCommand(cleanLine, index, comment)
    IN  IF cleanLine = <<>> THEN st
        ELSE IF command.code = <<>> THEN st
        ELSE processCommand([st EXCEPT !.commands = Append(@, command)],
                            command)

RECURSIVE ParseLines(_, _, _)
ParseLines(st, lines, i) ==
    IF i > Len(lines) THEN st
    ELSE ParseLines(parseLine(st, lines[i], i - 1), lines, i + 1)

\* a reset that keeps the position the parser object is at
resetParserKeepsPosition(st) ==
    [st EXCEPT !.commands = <<>>, !.paths = <<>>,
               !.currentFeedrate = Undefined, !.laserOn = FALSE,
               !.currentPower = Undefined]

\* the first statements of parseGCode: new empty arrays, position (0,0),
\* modal state as constructed
resetParser(st) ==
    [st EXCEPT !.commands = <<>>, !.paths = <<>>, !.currentPosition = Origin,
               !.currentFeedrate = Undefined, !.laserOn = FALSE,
               !.currentPower = Undefined]

\* parseGCode on the parser object st: reset, then every line in order
parseGCodeOn(st, text) == ParseLines(resetParser(st), split(text), 1)

\* new GCodeParser().parseGCode(text)
parseGCode(text) == parseGCodeOn(FreshParser, text)

\* the array a caller got from getPaths, after parseGCode ran on the parser
\* again: this.paths = [] gives the parser a new array, nothing is written
\* to the one the caller holds
callerPathsAfterParse(held, st) == held

getPaths(st) == st.paths

\* ------------------------------------------------------------- geometry
\* Infinity and -Infinity as the limits 1/0 and -1/0: the comparison by
\* cross-multiplication orders them below and above every rational
Infinity == [n |-> 1, d |-> 0]
NegInfinity == [n |-> -1, d |-> 0]

MathMin(a, b) == IF a = NaN \/ b = NaN THEN NaN ELSE IF RLess(b, a) THEN b ELSE a
MathMax(a, b) == IF a = NaN \/ b = NaN THEN NaN ELSE IF RLess(a, b) THEN b ELSE a

\* a fold that looks at the end points only
RECURSIVE BoundingBoxFoldEndsOnly(_, _, _)
BoundingBoxFoldEndsOnly(ps, i, box) ==
    IF i > Len(ps) THEN box
    ELSE LET path == ps[i]
             afterEnd ==
               [min |-> [x |-> MathMin(box.min.x, path.end.x),
                         y |-> MathMin(box.min.y, path.end.y)],
                max |-> [x |-> MathMax(box.max.x, path.end.x),
                         y |-> MathMax(box.max.y, path.end.y)]]
         IN  BoundingBoxFoldEndsOnly(ps, i + 1, afterEnd)

RECURSIVE BoundingBoxFold(_, _, _)
BoundingBoxFold(ps, i, box) ==
    IF i > Len(ps) THEN box
    ELSE LET path == ps[i]
             afterStart ==
               [min |-> [x |-> MathMin(box.min.x, path.start.x),
                         y |-> MathMin(box.min.y, path.start.y)],
                max |-> [x |-> MathMax(box.max.x, path.start.x),
                         y |-> MathMax(box.max.y, path.start.y)]]
             afterEnd ==
               [min |-> [x |-> MathMin(afterStart.min.x, path.end.x),
                         y |-> MathMin(afterStart.min.y, path.end.y)],
                max |-> [x |-> MathMax(afterStart.max.x, path.end.x),
                         y |-> MathMax(afterStart.max.y, path.end.y)]]
         IN  BoundingBoxFold(ps, i + 1, afterEnd)

getBoundingBox(ps) ==
    BoundingBoxFold(ps, 1, [min |-> [x |-> Infinity, y |-> Infinity],
                            max |-> [x |-> NegInfinity, y |-> NegInfinity]])

\* digits of v left-padded with zeros to at least w digits
RECURSIVE PadDigits(_, _)
PadDigits(ds, w) == IF Len(ds) >= w THEN ds ELSE PadDigits(<<"0">> \o ds, w)

\* Number.prototype.toFixed(4): the sign of a negative number, then the
\* magnitude rounded to 4 decimals, a tie going away from zero
toFixed4(p) ==
    LET m == (2 * Abs(p.n) * 10000 + p.d) \div (2 * p.d)
        ds == PadDigits(NatString(m), 5)
    IN  (IF p.n < 0 THEN <<"-">> ELSE <<>>)
        \o Slice(ds, 1, Len(ds) - 4) \o <<".">> \o Slice(ds, Len(ds) - 3, Len(ds))

\* `${x.toFixed(4)},${y.toFixed(4)}`
pointKey(pt) == toFixed4(pt.x) \o <<",">> \o toFixed4(pt.y)

\* a map that keeps the first value stored under a key
mapSetKeepsFirst(map, k, v) ==
    IF \E j \in 1..Len(map) : map[j].key = k
    THEN map
    ELSE Append(map, [key |-> k, value |-> v])

\* Map.prototype.set: the entry of an existing key is replaced in place
mapSet(map, k, v) ==
    IF \E j \in 1..Len(map) : map[j].key = k
    THEN [j \in 1..Len(map) |->
            IF map[j].key = k THEN [key |-> k, value |-> v] ELSE map[j]]
    ELSE Append(map, [key |-> k, value |-> v])

RECURSIVE PointsMapFold(_, _, _)
PointsMapFold(ps, i, map) ==
    IF i > Len(ps) THEN map
    ELSE PointsMapFold(ps, i + 1,
           mapSet(mapSet(map, pointKey(ps[i].start), ps[i].start),
                  pointKey(ps[i].end), ps[i].end))

RECURSIVE SumPoints(_, _, _)
SumPoints(map, i, acc) ==
    IF i > Len(map) THEN acc
    ELSE SumPoints(map, i + 1,
           [x |-> RAdd(acc.x, map[i].value.x), y |-> RAdd(acc.y, map[i].value.y)])

getCentroid(ps) ==
    IF Len(ps) = 0 THEN Origin
    ELSE LET uniquePoints == PointsMapFold(ps, 1, <<>>)
             sum == SumPoints(uniquePoints, 1, Origin)
             count == [n |-> Len(uniquePoints), d |-> 1]
         IN  [x |-> RDiv(sum.x, count), y |-> RDiv(sum.y, count)]

\* --------------------------------------------------------- GCodeCorrector
\* the weights of the two axes exchanged
orientationFactorSwapped(dx, dy, axis) ==
    IF RLess(Zero, RAdd(dx, dy))
    THEN IF axis = "X" THEN RDiv(dx, RAdd(dx, dy)) ELSE RDiv(dy, RAdd(dx, dy))
    ELSE Zero

\* the weight of a controlled segment's orientation for the chosen axis
orientationFactor(dx, dy, axis) ==
    IF RLess(Zero, RAdd(dx, dy))
    THEN IF axis = "X" THEN RDiv(dy, RAdd(dx, dy)) ELSE RDiv(dx, RAdd(dx, dy))
    ELSE Zero

\* ` F${Math.round(correctedFeedrate)}` without the leading blank
feedrateToken(correctedFeedrate) == <<"F">> \o IntString(MathRound(correctedFeedrate))

\* first position i of a match of /F\d+(\.\d+)?/ at or after i, 0 when none
RECURSIVE FeedrateMatchStart(_, _)
FeedrateMatchStart(line, i) ==
    IF i > Len(line) THEN 0
    ELSE IF line[i] = "F" /\ DigitRun(line, i + 1) >= 1 THEN i
    ELSE FeedrateMatchStart(line, i + 1)

\* last position of the match of /F\d+(\.\d+)?/ that starts at i
FeedrateMatchEnd(line, i) ==
    LET e1 == i + DigitRun(line, i + 1)
        d2 == IF e1 + 1 <= Len(line) /\ line[e1 + 1] = "."
              THEN DigitRun(line, e1 + 2) ELSE 0
    IN  IF d2 >= 1 THEN e1 + 1 + d2 ELSE e1

\* line.replace(/F\d+(\.\d+)?/, `F${Math.round(correctedFeedrate)}`): the
\* first match only, the line itself when nothing matches
replaceFeedrate(line, correctedFeedrate) ==
    LET i == FeedrateMatchStart(line, 1)
    IN  IF i = 0 THEN line
        ELSE Slice(line, 1, i - 1) \o feedrateToken(correctedFeedrate)
             \o Slice(line, FeedrateMatchEnd(line, i) + 1, Len(line))

\* the line of a command without F: the token goes before the comment, or
\* at the end of the line
appendFeedrate(line, correctedFeedrate) ==
    LET commentIndex == indexOf(line, ";")
    IN  IF commentIndex # 0
        THEN Slice(line, 1, commentIndex - 1) \o <<" ">>
             \o feedrateToken(correctedFeedrate) \o <<" ">>
             \o Slice(line, commentIndex, Len(line))
        ELSE line \o <<" ">> \o feedrateToken(correctedFeedrate)

\* while (currentLineIndex < bound) copy originalLines[currentLineIndex];
\* currentLineIndex is 0-based
RECURSIVE copyLines(_, _, _)
copyLines(acc, originalLines, bound) ==
    IF acc.currentLineIndex < bound
    THEN copyLines([acc EXCEPT
                      !.correctedGCode =
                          @ \o originalLines[acc.currentLineIndex + 1] \o <<"\n">>,
                      !.currentLineIndex = @ + 1],
                   originalLines, bound)
    ELSE acc

\* path.command && path.command.lineNumber !== undefined
hasCommand(path) == path.command.code # <<>>

\* path.feedrate || 0
feedrateOrZero(path) == IF path.feedrate = Undefined THEN Zero ELSE path.feedrate

\* a rapid branch that normalises the feed rate of the copy
correctRapidDefaultsFeedrate(acc, path, originalLines) ==
    LET pushed == [acc EXCEPT
                     !.correctedPaths =
                         Append(@, [path EXCEPT !.feedrate = feedrateOrZero(path)]),
                     !.correctionFactors = Append(@, Zero)]
    IN  IF hasCommand(path)
        THEN copyLines(pushed, originalLines, path.command.lineNumber + 1)
        ELSE pushed

\* a rapid branch that records no correction factor
correctRapidWithoutFactor(acc, path, originalLines) ==
    LET pushed == [acc EXCEPT !.correctedPaths = Append(@, path)]
    IN  IF hasCommand(path)
        THEN copyLines(pushed, originalLines, path.command.lineNumber + 1)
        ELSE pushed

\* a rapid move: copied, correction 0, the text copied up to and including
\* its line
correctRapid(acc, path, originalLines) ==
    LET pushed == [acc EXCEPT !.correctedPaths = Append(@, path),
                              !.correctionFactors = Append(@, Zero)]
    IN  IF hasCommand(path)
        THEN copyLines(pushed, originalLines, path.command.lineNumber + 1)
        ELSE pushed

\* a controlled branch that raises the feed rate by the correction
correctControlledRaisesFeedrate(acc, path, originalLines, coefficient, axis) ==
    LET dx == RAbs(RSub(path.end.x, path.start.x))
        dy == RAbs(RSub(path.end.y, path.start.y))
        effectiveCorrection == RMul(coefficient, orientationFactor(dx, dy, axis))
        correctedFeedrate == RMul(feedrateOrZero(path), RAdd(One, effectiveCorrection))
    IN  [acc EXCEPT
           !.correctedPaths = Append(@, [path EXCEPT !.feedrate = correctedFeedrate]),
           !.correctionFactors = Append(@, effectiveCorrection)]

\* a controlled move: its feed rate reduced by coefficient * orientation,
\* the text copied up to its line and its line rewritten
correctControlled(acc, path, originalLines, coefficient, axis) ==
    LET dx == RAbs(RSub(path.end.x, path.start.x))
        dy == RAbs(RSub(path.end.y, path.start.y))
        effectiveCorrection == RMul(coefficient, orientationFactor(dx, dy, axis))
        originalFeedrate == feedrateOrZero(path)
        correctedFeedrate == RMul(originalFeedrate, RSub(One, effectiveCorrection))
        pushed == [acc EXCEPT
                     !.correctedPaths =
                         Append(@, [path EXCEPT !.feedrate = correctedFeedrate]),
                     !.correctionFactors = Append(@, effectiveCorrection)]
    IN  IF hasCommand(path)
        THEN LET copied == copyLines(pushed, originalLines, path.command.lineNumber)
                 line == originalLines[copied.currentLineIndex + 1]
                 correctedLine ==
                     IF HasParam(path.command, "F")
                     THEN replaceFeedrate(line, correctedFeedrate)
                     ELSE appendFeedrate(line, correctedFeedrate)
             IN  [copied EXCEPT !.correctedGCode = @ \o correctedLine \o <<"\n">>,
                                !.currentLineIndex = @ + 1]
        ELSE pushed

\* a loop body that corrects rapid moves like controlled ones
correctPathWithoutRapidGuard(acc, path, originalLines, coefficient, axis) ==
    correctControlled(acc, path, originalLines, coefficient, axis)

\* the body of originalPaths.forEach in applyCorrection
correctPath(acc, path, originalLines, coefficient, axis) ==
    IF path.isRapid
    THEN correctRapid(acc, path, originalLines)
    ELSE correctControlled(acc, path, originalLines, coefficient, axis)

RECURSIVE CorrectPaths(_, _, _, _, _, _)
CorrectPaths(acc, originalPaths, i, originalLines, coefficient, axis) ==
    IF i > Len(originalPaths) THEN acc
    ELSE CorrectPaths(correctPath(acc, originalPaths[i], originalLines, coefficient, axis),
                      originalPaths, i + 1, originalLines, coefficient, axis)

applyCorrection(text, coefficient, axis) ==
    LET originalPaths == getPaths(parseGCode(text))
        originalLines == split(text)
        looped == CorrectPaths([correctedPaths |-> <<>>, correctionFactors |-> <<>>,
                                correctedGCode |-> <<>>, currentLineIndex |-> 0],
                               originalPaths, 1, originalLines, coefficient, axis)
        final == copyLines(looped, originalLines, Len(originalLines))
    IN  [originalPaths |-> originalPaths,
         correctedPaths |-> final.correctedPaths,
         correctionFactors |-> final.correctionFactors,
         correctedGCode |-> final.correctedGCode]

\* ---------------------------------------------------------- TimeEstimator
\* the largest r in lo..hi with r * r <= n
RECURSIVE IntSqrtIn(_, _, _)
IntSqrtIn(n, lo, hi) ==
    IF lo = hi THEN lo
    ELSE LET mid == (lo + hi + 1) \div 2
         IN  IF mid * mid <= n THEN IntSqrtIn(n, mid, hi)
             ELSE IntSqrtIn(n, lo, mid - 1)

IntSqrt(n) == IntSqrtIn(n, 0, 46340)

\* the digits Math.sqrt keeps of an irrational root: 1/SqrtScale
SqrtScale == 100

\* Math.sqrt: exact for the square of a rational, otherwise rounded down to
\* a multiple of 1/SqrtScale; NaN for a negative number
Sqrt(q) ==
    IF q.d = 0 THEN IF q.n > 0 THEN q ELSE NaN
    ELSE IF q.n < 0 THEN NaN
    ELSE LET rn == IntSqrt(q.n)
             rd == IntSqrt(q.d)
         IN  IF rn * rn = q.n /\ rd * rd = q.d THEN Rat(rn, rd)
             ELSE Rat(IntSqrt((q.n * SqrtScale * SqrtScale) \div q.d), SqrtScale)

\* an angle is represented by its cosine (Math.acos is strictly decreasing,
\* and Math.cos gives the cosine back): this is cos(10 degrees) to 4 digits
MIN_DIRECTION_CHANGE_ANGLE == Rat(9848, 10000)
JUNCTION_DEVIATION == Rat(5, 100)

calculateDistance(x1, y1, x2, y2) ==
    Sqrt(RAdd(RMul(RSub(x2, x1), RSub(x2, x1)), RMul(RSub(y2, y1), RSub(y2, y1))))

calculateDirection(x1, y1, x2, y2) ==
    LET distance == calculateDistance(x1, y1, x2, y2)
    IN  IF distance = Zero THEN [x |-> Zero, y |-> Zero]
        ELSE [x |-> RDiv(RSub(x2, x1), distance), y |-> RDiv(RSub(y2, y1), distance)]

\* the cosine of Math.acos(Math.min(Math.max(dotProduct, -1), 1))
calculateAngle(dir1, dir2) ==
    LET dotProduct == RAdd(RMul(dir1.x, dir2.x), RMul(dir1.y, dir2.y))
    IN  MathMin(MathMax(dotProduct, RNeg(One)), One)

calculateJunctionVelocity(prevDirection, nextDirection, prevFeedrate, nextFeedrate, acceleration) ==
    LET prevVelocity == RDiv(prevFeedrate, Rat(60, 1))
        nextVelocity == RDiv(nextFeedrate, Rat(60, 1))
        angle == calculateAngle(prevDirection, nextDirection)
    IN  \* angle < MIN_DIRECTION_CHANGE_ANGLE, on the cosines
        IF RLess(MIN_DIRECTION_CHANGE_ANGLE, angle)
        THEN MathMin(prevVelocity, nextVelocity)
        ELSE LET cosAngle == angle
                 junctionVelocity ==
                     Sqrt(RDiv(RMul(acceleration, JUNCTION_DEVIATION),
                               RSub(One, cosAngle)))
             IN  MathMin(MathMin(junctionVelocity, prevVelocity), nextVelocity)

\* the velocity profile of calculateSegmentTimeWithJunction, after its guard
velocityProfile(distance, effectiveFeedrate, acceleration, entryVelocity, exitVelocity) ==
    LET maxVelocity == RDiv(effectiveFeedrate, Rat(60, 1))
        v_entry == MathMin(entryVelocity, maxVelocity)
        v_exit == MathMin(exitVelocity, maxVelocity)
        twoA == RMul(Rat(2, 1), acceleration)
        accelDistance ==
            RDiv(RSub(RMul(maxVelocity, maxVelocity), RMul(v_entry, v_entry)), twoA)
        decelDistance ==
            RDiv(RSub(RMul(maxVelocity, maxVelocity), RMul(v_exit, v_exit)), twoA)
    IN  IF RLeq(RAdd(accelDistance, decelDistance), distance)
        THEN \* trapezoidal profile
             LET accelTime == RDiv(RSub(maxVelocity, v_entry), acceleration)
                 decelTime == RDiv(RSub(maxVelocity, v_exit), acceleration)
                 constantDistance == RSub(RSub(distance, accelDistance), decelDistance)
                 constantTime == RDiv(constantDistance, maxVelocity)
             IN  RAdd(RAdd(accelTime, constantTime), decelTime)
        ELSE \* triangular profile
             LET vPeakSquared ==
                     RDiv(RAdd(RAdd(RMul(twoA, distance), RMul(v_entry, v_entry)),
                               RMul(v_exit, v_exit)),
                          Rat(2, 1))
             IN  IF RLeq(vPeakSquared, Zero)
                 THEN RDiv(distance, RDiv(RAdd(v_entry, v_exit), Rat(2, 1)))
                 ELSE LET vPeak == Sqrt(vPeakSquared)
                          accelTime == RDiv(RSub(vPeak, v_entry), acceleration)
                          decelTime == RDiv(RSub(vPeak, v_exit), acceleration)
                      IN  RAdd(accelTime, decelTime)

\* a segment time that is not guarded against a non-positive acceleration
calculateSegmentTimeWithoutAccelerationGuard(distance, feedrate, acceleration, entryVelocity, exitVelocity, isRapid) ==
    LET effectiveFeedrate == IF isRapid THEN Rat(5000, 1) ELSE feedrate
    IN  IF RLeq(distance, Zero) \/ RLeq(effectiveFeedrate, Zero) THEN Zero
        ELSE velocityProfile(distance, effectiveFeedrate, acceleration,
                             entryVelocity, exitVelocity)

\* a segment time that is not guarded against a non-positive feed rate
calculateSegmentTimeWithoutFeedrateGuard(distance, feedrate, acceleration, entryVelocity, exitVelocity, isRapid) ==
    LET effectiveFeedrate == IF isRapid THEN Rat(5000, 1) ELSE feedrate
    IN  IF RLeq(distance, Zero) \/ RLeq(acceleration, Zero) THEN Zero
        ELSE velocityProfile(distance, effectiveFeedrate, acceleration,
                             entryVelocity, exitVelocity)

calculateSegmentTimeWithJunction(distance, feedrate, acceleration, entryVelocity, exitVelocity, isRapid) ==
    LET effectiveFeedrate == IF isRapid THEN Rat(5000, 1) ELSE feedrate
    IN  IF \/ RLeq(distance, Zero)
           \/ RLeq(effectiveFeedrate, Zero)
           \/ RLeq(acceleration, Zero)
        THEN Zero
        ELSE velocityProfile(distance, effectiveFeedrate, acceleration,
                             entryVelocity, exitVelocity)

pathDistance(path) ==
    calculateDistance(path.start.x, path.start.y, path.end.x, path.end.y)

pathDirection(path) ==
    calculateDirection(path.start.x, path.start.y, path.end.x, path.end.y)

\* an entry velocity that takes the junction velocity after any segment
entryVelocityAcrossKinds(ps, i, acceleration) ==
    IF i > 1
    THEN calculateJunctionVelocity(pathDirection(ps[i - 1]), pathDirection(ps[i]),
                                   feedrateOrZero(ps[i - 1]), feedrateOrZero(ps[i]),
                                   acceleration)
    ELSE Zero

\* entryVelocity of paths[i]: 0 for the first segment and after a segment
\* of the other kind
entryVelocityAt(ps, i, acceleration) ==
    IF i > 1 /\ ps[i - 1].isRapid = ps[i].isRapid
    THEN calculateJunctionVelocity(pathDirection(ps[i - 1]), pathDirection(ps[i]),
                                   feedrateOrZero(ps[i - 1]), feedrateOrZero(ps[i]),
                                   acceleration)
    ELSE Zero

\* an exit velocity that stops at the end of every segment
exitVelocityAlwaysStops(ps, i, acceleration) == Zero

\* exitVelocity of paths[i]: 0 for the last segment and before a segment
\* of the other kind
exitVelocityAt(ps, i, acceleration) ==
    IF i < Len(ps) /\ ps[i + 1].isRapid = ps[i].isRapid
    THEN calculateJunctionVelocity(pathDirection(ps[i]), pathDirection(ps[i + 1]),
                                   feedrateOrZero(ps[i]), feedrateOrZero(ps[i + 1]),
                                   acceleration)
    ELSE Zero

\* segmentTime of paths[i], a segment of non-zero length
segmentTimeAt(ps, i, acceleration) ==
    calculateSegmentTimeWithJunction(pathDistance(ps[i]), feedrateOrZero(ps[i]),
                                     acceleration,
                                     entryVelocityAt(ps, i, acceleration),
                                     exitVelocityAt(ps, i, acceleration),
                                     ps[i].isRapid)

\* an accumulation that books every segment as cutting
accumulateAsCutting(acc, segmentTime, isRapid) ==
    [acc EXCEPT !.totalTime = RAdd(@, segmentTime),
                !.cuttingTime = RAdd(@, segmentTime)]

\* totalTime += segmentTime; rapidTime or cuttingTime += segmentTime
accumulate(acc, segmentTime, isRapid) ==
    IF isRapid
    THEN [acc EXCEPT !.totalTime = RAdd(@, segmentTime),
                     !.rapidTime = RAdd(@, segmentTime)]
    ELSE [acc EXCEPT !.totalTime = RAdd(@, segmentTime),
                     !.cuttingTime = RAdd(@, segmentTime)]

\* a loop body that times a zero-length segment by its velocity profile
estimateSegmentWithoutSkip(acc, ps, i, acceleration) ==
    accumulate(acc,
               velocityProfile(pathDistance(ps[i]),
                               IF ps[i].isRapid THEN Rat(5000, 1)
                               ELSE feedrateOrZero(ps[i]),
                               acceleration,
                               entryVelocityAt(ps, i, acceleration),
                               exitVelocityAt(ps, i, acceleration)),
               ps[i].isRapid)

\* the body of the loop over paths in estimateTime
estimateSegment(acc, ps, i, acceleration) ==
    IF pathDistance(ps[i]) = Zero THEN acc
    ELSE accumulate(acc, segmentTimeAt(ps, i, acceleration), ps[i].isRapid)

RECURSIVE EstimateSegments(_, _, _, _)
EstimateSegments(acc, ps, i, acceleration) ==
    IF i > Len(ps) THEN acc
    ELSE EstimateSegments(estimateSegment(acc, ps, i, acceleration), ps, i + 1,
                          acceleration)

\* the three totals after the loop
estimateTotals(ps, acceleration) ==
    EstimateSegments([totalTime |-> Zero, rapidTime |-> Zero, cuttingTime |-> Zero],
                     ps, 1, acceleration)

\* the optional argument originalPaths
Missing == [defined |-> FALSE, paths |-> <<>>]
Given(ps) == [defined |-> TRUE, paths |-> ps]

\* the object estimateTime returns for a non-empty list: the three totals,
\* and originalTotalTime and timeSavings when there is a comparison
estimateResult(totals, compares, originalTotalTime) ==
    [totalTime |-> totals.totalTime,
     rapidTime |-> totals.rapidTime,
     cuttingTime |-> totals.cuttingTime,
     originalTotalTime |-> originalTotalTime,
     timeSavings |->
         IF compares
         THEN MathMax(Zero, RSub(originalTotalTime, totals.totalTime))
         ELSE Undefined]

\* an estimate that compares before it looks at the length of paths
estimateTimeWithoutEarlyReturn(ps, acceleration, originalPaths) ==
    estimateResult(estimateTotals(ps, acceleration), FALSE, Undefined)

\* estimateTime(paths, acceleration, originalPaths); the inner call
\* estimateTime(originalPaths, acceleration) is made on a non-empty list and
\* without a third argument, and only its totalTime is read
estimateTime(ps, acceleration, originalPaths) ==
    IF Len(ps) = 0
    THEN [totalTime |-> Zero, rapidTime |-> Zero, cuttingTime |-> Zero]
    ELSE LET compares == originalPaths.defined /\ Len(originalPaths.paths) > 0
         IN  estimateResult(estimateTotals(ps, acceleration), compares,
                            IF compares
                            THEN estimateTotals(originalPaths.paths,
                                                acceleration).totalTime
                            ELSE Undefined)

\* Math.floor of a finite number
MathFloor(p) == p.n \div p.d

\* Number.prototype.toFixed(digits) of a number that is not negative: the
\* number rounded to that many decimals, a tie going up
toFixed(p, digits) ==
    LET m == (2 * p.n * Pow10(digits) + p.d) \div (2 * p.d)
        ds == PadDigits(NatString(m), digits + 1)
    IN  IF digits = 0 THEN ds
        ELSE Slice(ds, 1, Len(ds) - digits) \o <<".">>
               \o Slice(ds, Len(ds) - digits + 1, Len(ds))

\* TimeEstimator.formatTime(seconds)
formatTime(seconds) ==
    IF RLess(seconds, Rat(60, 1))
    THEN toFixed(seconds, 1) \o <<" ", "s", "e", "c", "o", "n", "d", "s">>
    ELSE IF RLess(seconds, Rat(3600, 1))
    THEN LET minutes == MathFloor(RDiv(seconds, Rat(60, 1)))
             remainingSeconds == RSub(seconds, Rat(60 * minutes, 1))
         IN  NatString(minutes) \o <<" ", "m", "i", "n", " ">> \o toFixed(remainingSeconds, 0) \o <<" ", "s", "e", "g">>
    ELSE LET hours == MathFloor(RDiv(seconds, Rat(3600, 1)))
             remainingMinutes ==
                 MathFloor(RDiv(RSub(seconds, Rat(3600 * hours, 1)), Rat(60, 1)))
         IN  NatString(hours) \o <<" ", "h", " ">> \o NatString(remainingMinutes) \o <<" ", "m", "i", "n">>

\* ------------------------------------------------------------ input texts
\* the lines a program text is made of
Lines ==
    << <<"G", "0", " ", "X", "1", " ", "Y", "1">>,
       <<" ", "G", "1", " ", "X", "2", " ", "F", "6", " ", ";", "F", "9">>,
       <<"G", "1", " ", "Y", "2">>,
       <<"G", "1", "X", "1", " ", ";", "c">>,
       <<"G", "1", " ", "Y", "-", "1", " ", "F", ".", "5">>,
       <<";", "G", "1", " ", "X", "3">>,
       <<"G", "1", " ", "X", "0", ".", "0", "0", "0", "0", "1">>,
       <<"M", "3", " ", "S", "9">>,
       <<"M", "5">>,
       <<" ">>,
       <<"X", "3", " ", "F", "7">>,
       <<"G", "1", " ", "X", "3", " ", "F", "-", "2">>,
       <<"G", "0", "0", " ", "X", "5">> >>

\* the lines of the texts the corrector is run on
CorrectorLines == SubSeq(Lines, 1, 6) \o <<Lines[12]>>

\* lines.join('\n')
RECURSIVE Join(_)
Join(ls) ==
    IF Len(ls) = 0 THEN <<>>
    ELSE IF Len(ls) = 1 THEN ls[1]
    ELSE ls[1] \o <<"\n">> \o Join(Tail(ls))

\* the texts of at most MaxLines lines taken from ls
Texts(ls) ==
    UNION {{Join([i \in 1..k |-> ls[ix[i]]]) : ix \in [1..k -> 1..Len(ls)]} :
              k \in 0..MaxLines}

NoResult == [op |-> "none"]

InitWith(texts) ==
    /\ gcode \in texts
    /\ currentPosition = FreshParser.currentPosition
    /\ paths = FreshParser.paths
    /\ commands = FreshParser.commands
    /\ currentFeedrate = FreshParser.currentFeedrate
    /\ laserOn = FreshParser.laserOn
    /\ currentPower = FreshParser.currentPower
    /\ parsed = FALSE
    /\ segments = <<>>
    /\ out = NoResult

Init == InitWith(Texts(Lines))

\* parser.parseGCode(gcode)
ParseGCode ==
    /\ ~parsed
    /\ LET st == parseGCode(gcode)
       IN  /\ currentPosition' = st.currentPosition
           /\ paths' = st.paths
           /\ commands' = st.commands
           /\ currentFeedrate' = st.currentFeedrate
           /\ laserOn' = st.laserOn
           /\ currentPower' = st.currentPower
    /\ parsed' = TRUE
    /\ UNCHANGED <<gcode, segments, out>>

\* parser.getBoundingBox()
GetBoundingBox ==
    /\ out' = [op |-> "getBoundingBox", paths |-> paths, box |-> getBoundingBox(paths)]
    /\ UNCHANGED <<gcode, currentPosition, paths, commands, currentFeedrate,
                   laserOn, currentPower, parsed, segments>>

\* parser.getCentroid()
GetCentroid ==
    /\ out' = [op |-> "getCentroid", paths |-> paths, centroid |-> getCentroid(paths)]
    /\ UNCHANGED <<gcode, currentPosition, paths, commands, currentFeedrate,
                   laserOn, currentPower, parsed, segments>>

\* the options a caller passes to applyCorrection
Coefficients == {Zero, Rat(1, 2)}
Axes == {"X", "Y"}

\* new GCodeCorrector().applyCorrection(gcode, {coefficient, axis})
ApplyCorrection(coefficient, axis) ==
    /\ out' = [op |-> "applyCorrection", gcode |-> gcode,
               coefficient |-> coefficient, axis |-> axis,
               result |-> applyCorrection(gcode, coefficient, axis)]
    /\ UNCHANGED <<gcode, currentPosition, paths, commands, currentFeedrate,
                   laserOn, currentPower, parsed, segments>>

\* a parser object and its geometry utilities
Next ==
    \/ ParseGCode
    \/ GetBoundingBox
    \/ GetCentroid

Spec == Init /\ [][Next]_vars

\* the corrector, which parses the text with a parser of its own
InitCorrector == InitWith(Texts(CorrectorLines))

NextCorrector ==
    \E coefficient \in Coefficients, axis \in Axes : ApplyCorrection(coefficient, axis)

SpecCorrector == InitCorrector /\ [][NextCorrector]_vars

\* --------------------------------------------------------- input segments
MaxSegments == 3

Point(x, y) == [x |-> x, y |-> y]

\* a GCodePath as the estimator's callers build it
Segment(start, end, isRapid, feedrate) ==
    [start |-> start, end |-> end, isRapid |-> isRapid, feedrate |-> feedrate,
     laserOn |-> ~isRapid]

\* the segments a list is made of: cutting moves along X at two feed rates,
\* a cutting move along Y, rapid moves without and with a feed rate, and a
\* cutting move of length zero
CutSlow == Segment(Point(Zero, Zero), Point(Rat(161, 20), Zero), FALSE, Rat(1200, 1))
CutFast == Segment(Point(Zero, Zero), Point(Rat(161, 20), Zero), FALSE, Rat(2400, 1))
CutTurn == Segment(Point(Zero, Zero), Point(Zero, Rat(161, 20)), FALSE, Rat(2400, 1))
RapidPlain == Segment(Point(Zero, Zero), Point(Rat(161, 20), Zero), TRUE, Undefined)
RapidFast == Segment(Point(Zero, Zero), Point(Rat(161, 20), Zero), TRUE, Rat(2400, 1))
CutNowhere ==
    Segment(Point(Rat(10, 1), Rat(10, 1)), Point(Rat(10, 1), Rat(10, 1)), FALSE,
            Rat(1200, 1))

Segments == {CutSlow, CutFast, CutTurn, RapidPlain, RapidFast, CutNowhere}

\* cutting moves without a feed rate and with a negative one (as parsed from
\* a G1 before any F word, and from F-1200)
CutUnfed == Segment(Point(Zero, Zero), Point(Rat(161, 20), Zero), FALSE, Undefined)
CutReversed == Segment(Point(Zero, Zero), Point(Rat(161, 20), Zero), FALSE, Rat(-1200, 1))

FeedlessSegments == {CutUnfed, CutReversed}

ListsUpTo(n) == UNION {[1..k -> Segments] : k \in 0..n}

\* the lists given to the estimator: every list of up to MaxSegments
\* segments, and the lists with one feedless cutting move after at most one
\* segment and before at most one
SegmentLists ==
    ListsUpTo(MaxSegments)
      \cup {ps \o <<x>> \o qs :
              x \in FeedlessSegments,
              ps \in ListsUpTo(1), qs \in ListsUpTo(1)}

Accelerations == {Rat(20, 1), Rat(2000, 1), Zero, Rat(-20, 1)}

\* the list with the feed rate of segment i halved
WithFeedrateHalved(ps, i) ==
    [ps EXCEPT ![i].feedrate = IF @ = Undefined THEN @ ELSE RDiv(@, Rat(2, 1))]

\* what a caller passes as originalPaths for the list ps: nothing, an empty
\* list, the list itself, the list with one feed rate halved, one segment
OriginalPaths(ps) ==
    {Missing, Given(<<>>), Given(ps), Given(<<CutFast>>)}
      \cup {Given(WithFeedrateHalved(ps, i)) : i \in 1..Len(ps)}

InitEstimator ==
    /\ gcode = <<>>
    /\ currentPosition = FreshParser.currentPosition
    /\ paths = FreshParser.paths
    /\ commands = FreshParser.commands
    /\ currentFeedrate = FreshParser.currentFeedrate
    /\ laserOn = FreshParser.laserOn
    /\ currentPower = FreshParser.currentPower
    /\ parsed = FALSE
    /\ segments \in SegmentLists
    /\ out = NoResult

\* TimeEstimator.estimateTime(segments, acceleration, originalPaths), called
\* once: the function is static and keeps nothing between calls
EstimateTime(acceleration, originalPaths) ==
    /\ out = NoResult
    /\ out' = [op |-> "estimateTime", paths |-> segments,
               acceleration |-> acceleration, originalPaths |-> originalPaths,
               result |-> estimateTime(segments, acceleration, originalPaths)]
    /\ UNCHANGED <<gcode, currentPosition, paths, commands, currentFeedrate,
                   laserOn, currentPower, parsed, segments>>

\* the accelerations of the calls that pass originalPaths: a positive and a
\* negative one
ComparedAccelerations == {Rat(20, 1), Rat(-20, 1)}

\* a call without originalPaths at any acceleration, or a call with
\* originalPaths at one of the compared accelerations
NextEstimator ==
    \/ \E acceleration \in Accelerations : EstimateTime(acceleration, Missing)
    \/ \E acceleration \in ComparedAccelerations,
          originalPaths \in OriginalPaths(segments) \ {Missing} :
            EstimateTime(acceleration, originalPaths)

SpecEstimator == InitEstimator /\ [][NextEstimator]_vars

\* ------------------------------------------------------------ input times
MaxHours == 2

\* the minutes whose seconds are formatted: the first ones, those around one
\* hour and those around MaxHours hours
FormatMinutes == {0, 1, 59, 60, 61, 60 * MaxHours - 1, 60 * MaxHours}

\* the times given to formatTime: every quarter of a second of those minutes
FormatSeconds == {Rat(240 * m + k, 4) : m \in FormatMinutes, k \in 0..239}

InitFormat == InitWith({<<>>})

\* TimeEstimator.formatTime(seconds), called once
FormatTime(seconds) ==
    /\ out = NoResult
    /\ out' = [op |-> "formatTime", seconds |-> seconds,
               result |-> formatTime(seconds)]
    /\ UNCHANGED <<gcode, currentPosition, paths, commands, currentFeedrate,
                   laserOn, currentPower, parsed, segments>>

NextFormat == \E seconds \in FormatSeconds : FormatTime(seconds)

SpecFormat == InitFormat /\ [][NextFormat]_vars

\* ------------------------------------------------------- a parser reused
\* the lines of the texts a reused parser is run on: a controlled move with
\* a feed rate, a controlled move without one, a laser-on command
ReuseLines == <<Lines[2], Lines[3], Lines[8]>>

InitReuse == InitWith(Texts(ReuseLines))

\* the parser object as a record of its fields
Parser ==
    [currentPosition |-> currentPosition, paths |-> paths, commands |-> commands,
     currentFeedrate |-> currentFeedrate, laserOn |-> laserOn,
     currentPower |-> currentPower]

\* const held = parser.getPaths(): the caller holds the parser's array
GetPaths ==
    /\ parsed
    /\ out = NoResult
    /\ segments # getPaths(Parser)
    /\ segments' = getPaths(Parser)
    /\ UNCHANGED <<gcode, currentPosition, paths, commands, currentFeedrate,
                   laserOn, currentPower, parsed, out>>

\* parser.parseGCode(text) on the parser that has parsed gcode before
ParseAgain(text) ==
    /\ parsed
    /\ out = NoResult
    /\ LET st == parseGCodeOn(Parser, text)
       IN  /\ currentPosition' = st.currentPosition
           /\ paths' = st.paths
           /\ commands' = st.commands
           /\ currentFeedrate' = st.currentFeedrate
           /\ laserOn' = st.laserOn
           /\ currentPower' = st.currentPower
           /\ segments' = callerPathsAfterParse(segments, st)
    /\ gcode' = text
    /\ out' = [op |-> "parseGCode", earlier |-> segments, earlierText |-> gcode]
    /\ UNCHANGED parsed

\* applyCorrection on the text, while the caller holds a list
CorrectAgain(coefficient, axis) ==
    /\ parsed
    /\ out = NoResult
    /\ ApplyCorrection(coefficient, axis)

\* estimateTime on the list the caller holds
EstimateHeld(acceleration) ==
    /\ parsed
    /\ EstimateTime(acceleration, Missing)

NextReuse ==
    \/ ParseGCode
    \/ GetPaths
    \/ \E text \in Texts(ReuseLines) : ParseAgain(text)
    \/ \E coefficient \in Coefficients, axis \in Axes : CorrectAgain(coefficient, axis)
    \/ \E acceleration \in Accelerations : EstimateHeld(acceleration)

SpecReuse == InitReuse /\ [][NextReuse]_vars

\* ------------------------------------------------------------ GCodeViewer
\* the size of the canvas the viewer draws on
CanvasWidth == 300
CanvasHeight == 150

\* x || 1
OrOne(x) == IF x = Zero \/ x = NaN THEN One ELSE x

\* no view: parsedDataRef and initialViewRef are null
NoView == [set |-> FALSE]

\* the view the parse effect of GCodeViewer sets from a bounding box and a
\* centroid: scale and offset
viewOf(bbox, centroid) ==
    LET fixedScale == Rat(1, 2)
        padding == 20
        xRange == RSub(bbox.max.x, bbox.min.x)
        yRange == RSub(bbox.max.y, bbox.min.y)
        xScale == RDiv(Rat(CanvasWidth - 2 * padding, 1), OrOne(xRange))
        yScale == RDiv(Rat(CanvasHeight - 2 * padding, 1), OrOne(yRange))
        fitScale == MathMin(xScale, yScale)
        newScale == MathMax(fixedScale, RMul(fitScale, Rat(9, 10)))
        newOffsetX == RSub(Rat(CanvasWidth, 2), RMul(centroid.x, newScale))
        newOffsetY == RSub(Rat(CanvasHeight, 2), RMul(centroid.y, newScale))
    IN  [set |-> TRUE, xRange |-> xRange, yRange |-> yRange, scale |-> newScale,
         offset |-> [x |-> newOffsetX, y |-> newOffsetY]]

\* the parse effect of a GCodeViewer given gcodeContent only: the text is
\* parsed unless it is empty
viewOfContent(gcodeContent) ==
    IF gcodeContent = <<>> THEN [paths |-> <<>>, view |-> NoView]
    ELSE LET parser == parseGCode(gcodeContent)
         IN  [paths |-> getPaths(parser),
              view |-> viewOf(getBoundingBox(parser.paths), getCentroid(parser.paths))]

\* the correction effect of GCodePage followed by the parse effect of the
\* GCodeViewer it gives customPaths, customBbox and customCentroid: the page
\* gives null for an empty text, and the viewer then has nothing to show
viewOfCorrection(gcodeContent, coefficient, axis) ==
    IF gcodeContent = <<>> THEN [paths |-> <<>>, view |-> NoView]
    ELSE LET parser == parseGCode(gcodeContent)
             result == applyCorrection(gcodeContent, coefficient, axis)
         IN  [paths |-> result.correctedPaths,
              view |-> viewOf(getBoundingBox(parser.paths), getCentroid(parser.paths))]

\* the lines of the texts shown: moves, a laser command, a comment
ViewerLines == <<Lines[1], Lines[3], Lines[9], Lines[6]>>

InitViewer == InitWith(Texts(ViewerLines))

\* <GCodeViewer gcodeContent={gcode} /> is rendered
ViewContent ==
    /\ out = NoResult
    /\ out' = [op |-> "resetView", shown |-> viewOfContent(gcode)]
    /\ UNCHANGED <<gcode, currentPosition, paths, commands, currentFeedrate,
                   laserOn, currentPower, parsed, segments>>

\* GCodePage shows the corrected program of gcode
ViewCorrection(coefficient, axis) ==
    /\ out = NoResult
    /\ out' = [op |-> "resetView", shown |-> viewOfCorrection(gcode, coefficient, axis)]
    /\ UNCHANGED <<gcode, currentPosition, paths, commands, currentFeedrate,
                   laserOn, currentPower, parsed, segments>>

NextViewer ==
    \/ ViewContent
    \/ \E coefficient \in Coefficients, axis \in Axes : ViewCorrection(coefficient, axis)

SpecViewer == InitViewer /\ [][NextViewer]_vars

\* -------------------------------------------------- TestPatternGenerator
MaxSteps == 2

\* `${x}` for a finite number with at most four decimals
NumberString(p) ==
    LET k == CHOOSE j \in 0..4 :
                 /\ (p.n * Pow10(j)) % p.d = 0
                 /\ \A i \in 0..(j - 1) : (p.n * Pow10(i)) % p.d # 0
        m == (Abs(p.n) * Pow10(k)) \div p.d
        ds == PadDigits(NatString(m), k + 1)
    IN  (IF p.n < 0 THEN <<"-">> ELSE <<>>)
        \o (IF k = 0 THEN ds
            ELSE Slice(ds, 1, Len(ds) - k) \o <<".">> \o Slice(ds, Len(ds) - k + 1, Len(ds)))

\* `${Math.round(x)}`
RoundedString(p) == IntString(MathRound(p))

\* the name of a parameter type as text
TypeText(parameterType) ==
    CASE parameterType = "power" -> <<"p", "o", "w", "e", "r">>
      [] parameterType = "speed" -> <<"s", "p", "e", "e", "d">>
      [] parameterType = "correction" -> <<"c", "o", "r", "r", "e", "c", "t", "i", "o", "n">>

\* a validation that asks for the fixed values before it compares the axes
validateConfigFixedFirst(xAxis, yAxis, fixedPower, fixedSpeed) ==
    IF xAxis.parameterType # "power" /\ yAxis.parameterType # "power" /\ fixedPower = Undefined
    THEN <<"F", "i", "x", "e", "d", " ", "p", "o", "w", "e", "r", " ", "m", "u", "s", "t", " ", "b", "e", " ", "p", "r", "o", "v", "i", "d", "e", "d", " ", "i", "f", " ", "p", "o", "w", "e", "r", " ", "i", "s", " ", "n", "o", "t", " ", "o", "n", " ", "a", "n", "y", " ", "a", "x", "i", "s">>
    ELSE IF xAxis.parameterType # "speed" /\ yAxis.parameterType # "speed" /\ fixedSpeed = Undefined
    THEN <<"F", "i", "x", "e", "d", " ", "s", "p", "e", "e", "d", " ", "m", "u", "s", "t", " ", "b", "e", " ", "p", "r", "o", "v", "i", "d", "e", "d", " ", "i", "f", " ", "s", "p", "e", "e", "d", " ", "i", "s", " ", "n", "o", "t", " ", "o", "n", " ", "a", "n", "y", " ", "a", "x", "i", "s">>
    ELSE IF xAxis.parameterType = yAxis.parameterType
    THEN <<"C", "a", "n", "n", "o", "t", " ", "u", "s", "e", " ", "t", "h", "e", " ", "s", "a", "m", "e", " ", "p", "a", "r", "a", "m", "e", "t", "e", "r", " ", "(">> \o TypeText(xAxis.parameterType) \o <<")", " ", "o", "n", " ", "b", "o", "t", "h", " ", "a", "x", "e", "s">>
    ELSE <<>>

\* validateConfig: the message of the Error thrown, <<>> when none is thrown
validateConfig(xAxis, yAxis, fixedPower, fixedSpeed) ==
    IF xAxis.parameterType = yAxis.parameterType
    THEN <<"C", "a", "n", "n", "o", "t", " ", "u", "s", "e", " ", "t", "h", "e", " ", "s", "a", "m", "e", " ", "p", "a", "r", "a", "m", "e", "t", "e", "r", " ", "(">> \o TypeText(xAxis.parameterType) \o <<")", " ", "o", "n", " ", "b", "o", "t", "h", " ", "a", "x", "e", "s">>
    ELSE IF xAxis.parameterType # "power" /\ yAxis.parameterType # "power" /\ fixedPower = Undefined
    THEN <<"F", "i", "x", "e", "d", " ", "p", "o", "w", "e", "r", " ", "m", "u", "s", "t", " ", "b", "e", " ", "p", "r", "o", "v", "i", "d", "e", "d", " ", "i", "f", " ", "p", "o", "w", "e", "r", " ", "i", "s", " ", "n", "o", "t", " ", "o", "n", " ", "a", "n", "y", " ", "a", "x", "i", "s">>
    ELSE IF xAxis.parameterType # "speed" /\ yAxis.parameterType # "speed" /\ fixedSpeed = Undefined
    THEN <<"F", "i", "x", "e", "d", " ", "s", "p", "e", "e", "d", " ", "m", "u", "s", "t", " ", "b", "e", " ", "p", "r", "o", "v", "i", "d", "e", "d", " ", "i", "f", " ", "s", "p", "e", "e", "d", " ", "i", "s", " ", "n", "o", "t", " ", "o", "n", " ", "a", "n", "y", " ", "a", "x", "i", "s">>
    ELSE <<>>

\* xSteps > 1 ? (maxValue - minValue) / (xSteps - 1) : 0
incrementOf(axis) ==
    IF axis.steps > 1
    THEN RDiv(RSub(axis.maxValue, axis.minValue), Rat(axis.steps - 1, 1))
    ELSE Zero

\* minValue + increment * k
valueAt(axis, increment, k) == RAdd(axis.minValue, RMul(increment, Rat(k, 1)))

calculateParameterValue(parameterType, xAxis, yAxis, xValue, yValue, defaultValue) ==
    IF xAxis.parameterType = parameterType THEN xValue
    ELSE IF yAxis.parameterType = parameterType THEN yValue
    ELSE defaultValue

\* the comment line of a square
addSquareComments(x, y, xAxis, yAxis, xValue, yValue, power, speed) ==
    <<";", " ", "S", "q", "u", "a", "r", "e", " ", "a", "t", " ", "X">> \o NatString(x) \o <<"Y">> \o NatString(y) \o <<":", " ">>
      \o (IF xAxis.parameterType = "power"
          THEN <<"P", "o", "w", "e", "r", "-", "X", "=">> \o RoundedString(xValue) \o <<"%", ",", " ">> ELSE <<>>)
      \o (IF yAxis.parameterType = "power"
          THEN <<"P", "o", "w", "e", "r", "-", "Y", "=">> \o RoundedString(yValue) \o <<"%", ",", " ">> ELSE <<>>)
      \o (IF xAxis.parameterType = "speed"
          THEN <<"S", "p", "e", "e", "d", "-", "X", "=">> \o RoundedString(xValue) \o <<",", " ">> ELSE <<>>)
      \o (IF yAxis.parameterType = "speed"
          THEN <<"S", "p", "e", "e", "d", "-", "Y", "=">> \o RoundedString(yValue) \o <<",", " ">> ELSE <<>>)
      \o (IF xAxis.parameterType = "correction"
          THEN <<"C", "o", "r", "r", "e", "c", "t", "i", "o", "n", "-", "X", "=">> \o toFixed(xValue, 2) \o <<",", " ">> ELSE <<>>)
      \o (IF yAxis.parameterType = "correction"
          THEN <<"C", "o", "r", "r", "e", "c", "t", "i", "o", "n", "-", "Y", "=">> \o toFixed(yValue, 2) \o <<",", " ">> ELSE <<>>)
      \o <<"F", "i", "n", "a", "l", ":", " ", "S", "p", "e", "e", "d", "=">> \o RoundedString(speed) \o <<",", " ", "P", "o", "w", "e", "r", "=">>
      \o RoundedString(power) \o <<"%">>

\* speed * (1 - (corrected ? correction : 0)), rounded, as text
edgeSpeed(speed, correction, corrected) ==
    RoundedString(RMul(speed, RSub(One, IF corrected THEN correction ELSE Zero)))

\* a square that leaves the laser on at its end
drawSquareWithoutLaserOff(xPos, yPos, squareSize, normalizedPower, speed, correction, correctionAxis) ==
    LET right == RAdd(xPos, squareSize)
        top == RAdd(yPos, squareSize)
    IN  << <<"G", "0", "X">> \o NumberString(xPos) \o <<"Y">> \o NumberString(yPos) \o <<" ", ";", " ", "M", "o", "v", "e", " ", "t", "o", " ", "s", "t", "a", "r", "t", " ", "p", "o", "s", "i", "t", "i", "o", "n">>,
           <<"M", "7", " ", ";", " ", "A", "i", "r", " ", "a", "s", "s", "i", "s", "t", " ", "o", "n">>,
           <<"M", "4", "S">> \o IntString(normalizedPower) \o <<" ", ";", " ", "S", "e", "t", " ", "l", "a", "s", "e", "r", " ", "p", "o", "w", "e", "r">>,
           <<"G", "1", "X">> \o NumberString(right) \o <<"Y">> \o NumberString(yPos) \o <<"F">>
             \o edgeSpeed(speed, correction, correctionAxis = "Y") \o <<" ", ";", " ", "B", "o", "t", "t", "o", "m", " ", "e", "d", "g", "e", " ", "(", "h", "o", "r", "i", "z", "o", "n", "t", "a", "l", ")">>,
           <<"M", "9", " ", ";", " ", "A", "i", "r", " ", "a", "s", "s", "i", "s", "t", " ", "o", "f", "f", "\n">> >>

\* drawSquare: the lines pushed for one square
drawSquare(xPos, yPos, squareSize, normalizedPower, speed, correction, correctionAxis) ==
    LET right == RAdd(xPos, squareSize)
        top == RAdd(yPos, squareSize)
        isHorizontalCorrected == correctionAxis = "Y"
        isVerticalCorrected == correctionAxis = "X"
    IN  << <<"G", "0", "X">> \o NumberString(xPos) \o <<"Y">> \o NumberString(yPos) \o <<" ", ";", " ", "M", "o", "v", "e", " ", "t", "o", " ", "s", "t", "a", "r", "t", " ", "p", "o", "s", "i", "t", "i", "o", "n">>,
           <<"M", "7", " ", ";", " ", "A", "i", "r", " ", "a", "s", "s", "i", "s", "t", " ", "o", "n">>,
           <<"M", "4", "S">> \o IntString(normalizedPower) \o <<" ", ";", " ", "S", "e", "t", " ", "l", "a", "s", "e", "r", " ", "p", "o", "w", "e", "r">>,
           <<"G", "1", "X">> \o NumberString(right) \o <<"Y">> \o NumberString(yPos) \o <<"F">>
             \o edgeSpeed(speed, correction, isHorizontalCorrected) \o <<" ", ";", " ", "B", "o", "t", "t", "o", "m", " ", "e", "d", "g", "e", " ", "(", "h", "o", "r", "i", "z", "o", "n", "t", "a", "l", ")">>,
           <<"G", "1", "X">> \o NumberString(right) \o <<"Y">> \o NumberString(top) \o <<"F">>
             \o edgeSpeed(speed, correction, isVerticalCorrected) \o <<" ", ";", " ", "R", "i", "g", "h", "t", " ", "e", "d", "g", "e", " ", "(", "v", "e", "r", "t", "i", "c", "a", "l", ")">>,
           <<"G", "1", "X">> \o NumberString(xPos) \o <<"Y">> \o NumberString(top) \o <<"F">>
             \o edgeSpeed(speed, correction, isHorizontalCorrected) \o <<" ", ";", " ", "T", "o", "p", " ", "e", "d", "g", "e", " ", "(", "h", "o", "r", "i", "z", "o", "n", "t", "a", "l", ")">>,
           <<"G", "1", "X">> \o NumberString(xPos) \o <<"Y">> \o NumberString(yPos) \o <<"F">>
             \o edgeSpeed(speed, correction, isVerticalCorrected) \o <<" ", ";", " ", "L", "e", "f", "t", " ", "e", "d", "g", "e", " ", "(", "v", "e", "r", "t", "i", "c", "a", "l", ")">>,
           <<"M", "5", " ", ";", " ", "L", "a", "s", "e", "r", " ", "o", "f", "f">>,
           <<"M", "9", " ", ";", " ", "A", "i", "r", " ", "a", "s", "s", "i", "s", "t", " ", "o", "f", "f", "\n">> >>

\* the body of the loops of generateSquares for the square in column x of
\* row y
squareAt(config, x, y) ==
    LET xAxis == config.xAxis
        yAxis == config.yAxis
        xValue == valueAt(xAxis, incrementOf(xAxis), x)
        yValue == valueAt(yAxis, incrementOf(yAxis), y)
        power == calculateParameterValue("power", xAxis, yAxis, xValue, yValue, config.fixedPower)
        speed == calculateParameterValue("speed", xAxis, yAxis, xValue, yValue, config.fixedSpeed)
        correction == calculateParameterValue("correction", xAxis, yAxis, xValue, yValue, Zero)
        pitch == RAdd(config.squareSize, config.spacing)
        xPos == RAdd(config.margin, RMul(Rat(x, 1), pitch))
        yPos == RAdd(config.margin, RMul(Rat(y, 1), pitch))
        normalizedPower == MathRound(RMul(power, Rat(10, 1)))
    IN  <<addSquareComments(x, y, xAxis, yAxis, xValue, yValue, power, speed)>>
          \o drawSquare(xPos, yPos, config.squareSize, normalizedPower, speed,
                        correction, config.correctionAxis)

\* generateSquares: the squares from the k-th on, row by row
RECURSIVE generateSquares(_, _)
generateSquares(config, k) ==
    IF k >= config.xAxis.steps * config.yAxis.steps THEN <<>>
    ELSE squareAt(config, k % config.xAxis.steps, k \div config.xAxis.steps)
           \o generateSquares(config, k + 1)

formatLabelText(parameterType, value) ==
    CASE parameterType = "power" -> RoundedString(value) \o <<"%">>
      [] parameterType = "speed" -> RoundedString(value)
      [] parameterType = "correction" -> toFixed(value, 2)

\* the label lines of an axis from the k-th on
RECURSIVE axisLabels(_, _, _, _)
axisLabels(config, axis, isX, k) ==
    IF k >= axis.steps THEN <<>>
    ELSE LET value == valueAt(axis, incrementOf(axis), k)
             center == RAdd(RMul(Rat(k, 1), RAdd(config.squareSize, config.spacing)),
                            RDiv(config.squareSize, Rat(2, 1)))
             half == NumberString(RDiv(config.spacing, Rat(2, 1)))
             labelText == formatLabelText(axis.parameterType, value)
         IN  << IF isX
                THEN <<";", " ", "X", "-", "L", "a", "b", "e", "l", " ", "a", "t", " ", "X", "=">> \o NumberString(center) \o <<" ", "Y", "=", "-">> \o half
                       \o <<":", " ">> \o labelText
                ELSE <<";", " ", "Y", "-", "L", "a", "b", "e", "l", " ", "a", "t", " ", "X", "=", "-">> \o half \o <<" ", "Y", "=">> \o NumberString(center)
                       \o <<":", " ">> \o labelText >>
               \o axisLabels(config, axis, isX, k + 1)

addAxisLabels(config) ==
    << <<"\n", ";", " ", "X", "-", "a", "x", "i", "s", " ", "l", "a", "b", "e", "l", "s", " ", "(">> \o TypeText(config.xAxis.parameterType) \o <<")">> >>
      \o axisLabels(config, config.xAxis, TRUE, 0)
      \o << <<"\n", ";", " ", "Y", "-", "a", "x", "i", "s", " ", "l", "a", "b", "e", "l", "s", " ", "(">> \o TypeText(config.yAxis.parameterType) \o <<")">> >>
      \o axisLabels(config, config.yAxis, FALSE, 0)

\* the line of the header that describes an axis
axisHeader(name, axis) ==
    <<";">> \o name \o <<" ", "A", "x", "i", "s", ":", " ">> \o TypeText(axis.parameterType) \o <<" ", "f", "r", "o", "m", " ">>
      \o NumberString(axis.minValue) \o <<" ", "t", "o", " ">> \o NumberString(axis.maxValue)
      \o <<" ", "i", "n", " ">> \o IntString(axis.steps) \o <<" ", "s", "t", "e", "p", "s">>

\* the header lines about the fixed values, the correction axis and the sizes
fixedHeader(config) ==
    (IF config.fixedPower # Undefined
     THEN << <<";", "F", "i", "x", "e", "d", " ", "P", "o", "w", "e", "r", ":", " ">> \o NumberString(config.fixedPower) \o <<"%">> >>
     ELSE <<>>)
      \o (IF config.fixedSpeed # Undefined
          THEN << <<";", "F", "i", "x", "e", "d", " ", "S", "p", "e", "e", "d", ":", " ">> \o NumberString(config.fixedSpeed) \o <<" ", "u", "n", "i", "t", "s", "/", "m", "i", "n">> >>
          ELSE <<>>)
      \o (IF "correction" \in {config.xAxis.parameterType, config.yAxis.parameterType}
          THEN << <<";", "C", "o", "r", "r", "e", "c", "t", "i", "o", "n", " ", "A", "x", "i", "s", ":", " ">> \o <<config.correctionAxis>>
                    \o <<" ", "(", "a", "x", "i", "s", " ", "w", "i", "t", "h", " ", "l", "o", "w", "e", "r", " ", "e", "f", "f", "i", "c", "i", "e", "n", "c", "y", ")">> >>
          ELSE <<>>)

sizesHeader(config) ==
    <<";", "S", "q", "u", "a", "r", "e", " ", "S", "i", "z", "e", ":", " ">> \o NumberString(config.squareSize) \o <<"m", "m", ",", " ", "S", "p", "a", "c", "i", "n", "g", ":", " ">>
      \o NumberString(config.spacing) \o <<"m", "m", "\n">>

\* the lines generatePattern joins when the configuration is valid
patternLines(config) ==
    LET xSteps == config.xAxis.steps
        ySteps == config.yAxis.steps
        pitch == RAdd(config.squareSize, config.spacing)
        totalWidth == RSub(RMul(Rat(xSteps, 1), pitch), config.spacing)
        totalHeight == RSub(RMul(Rat(ySteps, 1), pitch), config.spacing)
    IN  << <<";", "L", "a", "s", "e", "r", " ", "T", "e", "s", "t", " ", "P", "a", "t", "t", "e", "r", "n", " ", "G", "e", "n", "e", "r", "a", "t", "o", "r">>,
           <<";", "F", "e", "r", "n", "a", "n", "d", "o", " ", "L", "e", "ó", "n", " ", "2", "0", "2", "5">>,
           axisHeader(<<"X">>, config.xAxis),
           axisHeader(<<"Y">>, config.yAxis),
           <<";", " ", "B", "o", "u", "n", "d", "s", ":", " ", "X">> \o NumberString(config.margin) \o <<" ", "Y">> \o NumberString(config.margin)
             \o <<" ", "t", "o", " ", "X">> \o NumberString(RAdd(config.margin, totalWidth))
             \o <<" ", "Y">> \o NumberString(RAdd(config.margin, totalHeight)) \o <<"\n">> >>
          \o fixedHeader(config)
          \o <<sizesHeader(config)>>
          \o << <<"G", "0", "0", "G", "1", "7", "G", "4", "0", "G", "2", "1", "G", "5", "4", " ", ";", " ", "I", "n", "i", "t", "i", "a", "l", " ", "s", "e", "t", "u", "p", " ", "-", " ", "r", "a", "p", "i", "d", " ", "p", "o", "s", "i", "t", "i", "o", "n", "i", "n", "g", ",", " ", "X", "Y", " ", "p", "l", "a", "n", "e", ",", " ", "t", "o", "o", "l", " ", "c", "o", "m", "p", " ", "c", "a", "n", "c", "e", "l", ",", " ", "m", "m", " ", "u", "n", "i", "t", "s", ",", " ", "c", "o", "o", "r", "d", " ", "s", "y", "s", "t", "e", "m", " ", "1">>,
                <<"G", "9", "0", " ", ";", " ", "A", "b", "s", "o", "l", "u", "t", "e", " ", "p", "o", "s", "i", "t", "i", "o", "n", "i", "n", "g">>,
                <<"M", "5", " ", ";", " ", "L", "a", "s", "e", "r", " ", "o", "f", "f">>,
                <<"G", "0", "X", "0", "Y", "0", " ", ";", " ", "M", "o", "v", "e", " ", "t", "o", " ", "o", "r", "i", "g", "i", "n", "\n">> >>
          \o generateSquares(config, 0)
          \o addAxisLabels(config)
          \o << <<"G", "0", "X", "0", "Y", "0", " ", ";", " ", "R", "e", "t", "u", "r", "n", " ", "t", "o", " ", "o", "r", "i", "g", "i", "n">>,
                <<"M", "5", " ", ";", " ", "E", "n", "s", "u", "r", "e", " ", "l", "a", "s", "e", "r", " ", "i", "s", " ", "o", "f", "f">> >>

\* ls[a..b].join('\n'), joined by halves
RECURSIVE joinRange(_, _, _)
joinRange(ls, a, b) ==
    IF a > b THEN <<>>
    ELSE IF a = b THEN ls[a]
    ELSE joinRange(ls, a, (a + b) \div 2) \o <<"\n">>
           \o joinRange(ls, (a + b) \div 2 + 1, b)

\* gcodeLines.join('\n')
joinLines(ls) == joinRange(ls, 1, Len(ls))

\* what a call returns: the Error thrown or the text returned
Thrown(message) == [thrown |-> TRUE, message |-> message]
Returned(text) == [thrown |-> FALSE, text |-> text]

\* TestPatternGenerator.generatePattern(config) (with margin)
generatePattern(config) ==
    LET message == validateConfig(config.xAxis, config.yAxis, config.fixedPower,
                                  config.fixedSpeed)
    IN  IF message # <<>> THEN Thrown(message) ELSE Returned(joinLines(patternLines(config)))

\* (steps - 1 || 1)
stepsMinusOneOrOne(steps) == IF steps - 1 = 0 THEN 1 ELSE steps - 1

\* the increment of the generator with the outer rectangle
borderedIncrementOf(axis) ==
    RDiv(RSub(axis.maxValue, axis.minValue), Rat(stepsMinusOneOrOne(axis.steps), 1))

\* x || fallback for a number that may be undefined
OrElse(x, fallback) == IF x = Undefined \/ x = Zero THEN fallback ELSE x

\* the outer rectangle of the generator without margin
borderedRectangle(config) ==
    LET xAxis == config.xAxis
        yAxis == config.yAxis
        pitch == RAdd(config.squareSize, config.spacing)
        totalWidth == RSub(RMul(Rat(xAxis.steps, 1), pitch), config.spacing)
        totalHeight == RSub(RMul(Rat(yAxis.steps, 1), pitch), config.spacing)
        borderPower == IF xAxis.parameterType = "power" THEN xAxis.maxValue
                       ELSE IF yAxis.parameterType = "power" THEN yAxis.maxValue
                       ELSE OrElse(config.fixedPower, Rat(80, 1))
        borderSpeed == IF xAxis.parameterType = "speed" THEN xAxis.maxValue
                       ELSE IF yAxis.parameterType = "speed" THEN yAxis.maxValue
                       ELSE OrElse(config.fixedSpeed, Rat(3000, 1))
        s == NumberString(config.spacing)
        w == NumberString(RAdd(totalWidth, config.spacing))
        h == NumberString(RAdd(totalHeight, config.spacing))
    IN  <<";", " ", "O", "u", "t", "e", "r", " ", "r", "e", "c", "t", "a", "n", "g", "l", "e", " ", "t", "o", " ", "m", "a", "r", "k", " ", "t", "h", "e", " ", "t", "e", "s", "t", " ", "a", "r", "e", "a", "\n">>
          \o <<"G", "0", " ", "X", "-">> \o s \o <<" ", "Y", "-">> \o s \o <<" ", ";", " ", "M", "o", "v", "e", " ", "t", "o", " ", "s", "t", "a", "r", "t", " ", "p", "o", "s", "i", "t", "i", "o", "n", "\n">>
          \o <<"M", "3", " ", "S">> \o RoundedString(RMul(borderPower, Rat(10, 1))) \o <<" ", ";", " ", "S", "e", "t", " ", "b", "o", "r", "d", "e", "r", " ", "p", "o", "w", "e", "r", "\n">>
          \o <<"G", "1", " ", "X">> \o w \o <<" ", "Y", "-">> \o s \o <<" ", "F">> \o NumberString(borderSpeed) \o <<" ", ";", " ", "D", "r", "a", "w", " ", "b", "o", "t", "t", "o", "m", " ", "e", "d", "g", "e", "\n">>
          \o <<"G", "1", " ", "X">> \o w \o <<" ", "Y">> \o h \o <<" ", ";", " ", "D", "r", "a", "w", " ", "r", "i", "g", "h", "t", " ", "e", "d", "g", "e", "\n">>
          \o <<"G", "1", " ", "X", "-">> \o s \o <<" ", "Y">> \o h \o <<" ", ";", " ", "D", "r", "a", "w", " ", "t", "o", "p", " ", "e", "d", "g", "e", "\n">>
          \o <<"G", "1", " ", "X", "-">> \o s \o <<" ", "Y", "-">> \o s \o <<" ", ";", " ", "D", "r", "a", "w", " ", "l", "e", "f", "t", " ", "e", "d", "g", "e", "\n">>
          \o <<"M", "5", " ", ";", " ", "L", "a", "s", "e", "r", " ", "o", "f", "f", "\n", "\n">>

\* the text of the square in column x of row y, without margin
borderedSquareAt(config, x, y) ==
    LET xAxis == config.xAxis
        yAxis == config.yAxis
        xValue == valueAt(xAxis, borderedIncrementOf(xAxis), x)
        yValue == valueAt(yAxis, borderedIncrementOf(yAxis), y)
        power == calculateParameterValue("power", xAxis, yAxis, xValue, yValue, config.fixedPower)
        speed == calculateParameterValue("speed", xAxis, yAxis, xValue, yValue, config.fixedSpeed)
        correction == calculateParameterValue("correction", xAxis, yAxis, xValue, yValue, Zero)
        pitch == RAdd(config.squareSize, config.spacing)
        xPos == RMul(Rat(x, 1), pitch)
        yPos == RMul(Rat(y, 1), pitch)
        right == NumberString(RAdd(xPos, config.squareSize))
        top == NumberString(RAdd(yPos, config.squareSize))
        left == NumberString(xPos)
        bottom == NumberString(yPos)
        normalizedPower == MathRound(RMul(power, Rat(10, 1)))
        horizontal == edgeSpeed(speed, correction, config.correctionAxis = "Y")
        vertical == edgeSpeed(speed, correction, config.correctionAxis = "X")
    IN  addSquareComments(x, y, xAxis, yAxis, xValue, yValue, power, speed) \o <<"\n">>
          \o <<"G", "0", " ", "X">> \o left \o <<" ", "Y">> \o bottom \o <<" ", ";", " ", "M", "o", "v", "e", " ", "t", "o", " ", "s", "t", "a", "r", "t", " ", "p", "o", "s", "i", "t", "i", "o", "n", "\n">>
          \o <<"M", "3", " ", "S">> \o IntString(normalizedPower) \o <<" ", ";", " ", "S", "e", "t", " ", "l", "a", "s", "e", "r", " ", "p", "o", "w", "e", "r", "\n">>
          \o <<"G", "1", " ", "X">> \o right \o <<" ", "Y">> \o bottom \o <<" ", "F">> \o horizontal \o <<" ", ";", " ", "B", "o", "t", "t", "o", "m", " ", "e", "d", "g", "e", " ", "(", "h", "o", "r", "i", "z", "o", "n", "t", "a", "l", ")", "\n">>
          \o <<"G", "1", " ", "X">> \o right \o <<" ", "Y">> \o top \o <<" ", "F">> \o vertical \o <<" ", ";", " ", "R", "i", "g", "h", "t", " ", "e", "d", "g", "e", " ", "(", "v", "e", "r", "t", "i", "c", "a", "l", ")", "\n">>
          \o <<"G", "1", " ", "X">> \o left \o <<" ", "Y">> \o top \o <<" ", "F">> \o horizontal \o <<" ", ";", " ", "T", "o", "p", " ", "e", "d", "g", "e", " ", "(", "h", "o", "r", "i", "z", "o", "n", "t", "a", "l", ")", "\n">>
          \o <<"G", "1", " ", "X">> \o left \o <<" ", "Y">> \o bottom \o <<" ", "F">> \o vertical \o <<" ", ";", " ", "L", "e", "f", "t", " ", "e", "d", "g", "e", " ", "(", "v", "e", "r", "t", "i", "c", "a", "l", ")", "\n">>
          \o <<"M", "5", " ", ";", " ", "L", "a", "s", "e", "r", " ", "o", "f", "f", "\n", "\n">>

RECURSIVE borderedSquares(_, _)
borderedSquares(config, k) ==
    IF k >= config.xAxis.steps * config.yAxis.steps THEN <<>>
    ELSE borderedSquareAt(config, k % config.xAxis.steps, k \div config.xAxis.steps)
           \o borderedSquares(config, k + 1)

\* lines.join('\n') followed by a line feed: each line was added with '\n'
RECURSIVE Concat(_)
Concat(ls) == IF ls = <<>> THEN <<>> ELSE Head(ls) \o <<"\n">> \o Concat(Tail(ls))

\* TestPatternGenerator.generatePattern(config) of the generator without
\* margin, which draws an outer rectangle; the text addAxisLabels returns is
\* dropped by the caller
generatePatternBordered(config) ==
    LET message == validateConfig(config.xAxis, config.yAxis, config.fixedPower,
                                  config.fixedSpeed)
    IN  IF message # <<>> THEN Thrown(message)
        ELSE Returned(
               Concat(<< <<";", "L", "a", "s", "e", "r", " ", "T", "e", "s", "t", " ", "P", "a", "t", "t", "e", "r", "n", " ", "G", "e", "n", "e", "r", "a", "t", "o", "r">>,
                         axisHeader(<<"X">>, config.xAxis),
                         axisHeader(<<"Y">>, config.yAxis) >>
                      \o fixedHeader(config))
                 \o sizesHeader(config) \o <<"\n">>
                 \o <<"G", "2", "1", " ", ";", " ", "S", "e", "t", " ", "u", "n", "i", "t", "s", " ", "t", "o", " ", "m", "i", "l", "l", "i", "m", "e", "t", "e", "r", "s", "\n">>
                 \o <<"G", "9", "0", " ", ";", " ", "A", "b", "s", "o", "l", "u", "t", "e", " ", "p", "o", "s", "i", "t", "i", "o", "n", "i", "n", "g", "\n">>
                 \o <<"M", "5", " ", ";", " ", "L", "a", "s", "e", "r", " ", "o", "f", "f", "\n">>
                 \o <<"G", "0", " ", "X", "0", " ", "Y", "0", " ", ";", " ", "M", "o", "v", "e", " ", "t", "o", " ", "o", "r", "i", "g", "i", "n", "\n", "\n">>
                 \o borderedRectangle(config)
                 \o borderedSquares(config, 0)
                 \o <<"G", "0", " ", "X", "0", " ", "Y", "0", " ", ";", " ", "R", "e", "t", "u", "r", "n", " ", "t", "o", " ", "o", "r", "i", "g", "i", "n", "\n">>
                 \o <<"M", "5", " ", ";", " ", "E", "n", "s", "u", "r", "e", " ", "l", "a", "s", "e", "r", " ", "i", "s", " ", "o", "f", "f", "\n">>)

\* the configurations given to generatePattern
ParameterTypes == {"power", "speed", "correction"}

AxisConfig(parameterType, steps) ==
    [parameterType |-> parameterType,
     minValue |-> CASE parameterType = "power" -> Rat(10, 1)
                    [] parameterType = "speed" -> Rat(500, 1)
                    [] parameterType = "correction" -> Zero,
     maxValue |-> CASE parameterType = "power" -> Rat(100, 1)
                    [] parameterType = "speed" -> Rat(1500, 1)
                    [] parameterType = "correction" -> Rat(1, 2),
     steps |-> steps]

Configs ==
    {[xAxis |-> AxisConfig(xType, xSteps), yAxis |-> AxisConfig(yType, ySteps),
      fixedPower |-> fixedPower, fixedSpeed |-> fixedSpeed,
      squareSize |-> Rat(10, 1), spacing |-> Rat(5, 1), margin |-> Rat(10, 1),
      correctionAxis |-> correctionAxis] :
        xType \in ParameterTypes, yType \in ParameterTypes,
        xSteps \in 0..MaxSteps, ySteps \in 0..MaxSteps,
        fixedPower \in {Undefined, Rat(80, 1)},
        fixedSpeed \in {Undefined, Rat(1000, 1)},
        correctionAxis \in Axes}

InitGenerator == InitWith({<<>>})

\* TestPatternGenerator.generatePattern(config), called once
GeneratePattern(config) ==
    /\ out = NoResult
    /\ out' = [op |-> "generatePattern", config |-> config, bordered |-> FALSE,
               result |-> generatePattern(config)]
    /\ UNCHANGED <<gcode, currentPosition, paths, commands, currentFeedrate,
                   laserOn, currentPower, parsed, segments>>

\* generatePattern(config) of the generator without margin, called once
GeneratePatternBordered(config) ==
    /\ out = NoResult
    /\ out' = [op |-> "generatePattern", config |-> config, bordered |-> TRUE,
               result |-> generatePatternBordered(config)]
    /\ UNCHANGED <<gcode, currentPosition, paths, commands, currentFeedrate,
                   laserOn, currentPower, parsed, segments>>

NextGenerator ==
    \E config \in Configs :
        \/ GeneratePattern(config)
        \/ GeneratePatternBordered(config)

SpecGenerator == InitGenerator /\ [][NextGenerator]_vars

\* ------------------------------------------------------------- properties
\* C1: the segment list of a parser is chained: the first segment starts at
\* {0,0} and every later segment starts where its predecessor ends
ChainedSegments ==
    /\ Len(paths) > 0 => paths[1].start = Origin
    /\ \A i \in 2..Len(paths) : paths[i].start = paths[i - 1].end

\* a parse that produced a second segment starting away from the origin
ChainedSegmentsWitness ==
    /\ parsed
    /\ Len(paths) >= 2
    /\ paths[2].start # Origin
    /\ paths[2].end # paths[2].start

\* the part of a line before its comment, trimmed
CleanPart(line) ==
    LET k == indexOf(line, ";")
    IN  trim(IF k # 0 THEN Slice(line, 1, k - 1) ELSE line)

\* a line that is empty, blank, comment-only or without a leading command token
Ignorable(line) ==
    LET clean == CleanPart(line)
    IN  \/ clean = <<>>
        \/ ~(clean[1] \in {"G", "M"} /\ Len(clean) >= 2 /\ clean[2] \in Digits)

RECURSIVE KeepLines(_)
KeepLines(ls) ==
    IF ls = <<>> THEN <<>>
    ELSE IF Ignorable(Head(ls)) THEN KeepLines(Tail(ls))
    ELSE <<Head(ls)>> \o KeepLines(Tail(ls))

WithoutIgnorable(text) == Join(KeepLines(split(text)))

\* a segment without the line number of its back-reference, which is an
\* index into the text and not a property of the move
SegmentValue(path) ==
    [start |-> path.start, end |-> path.end, isRapid |-> path.isRapid,
     feedrate |-> path.feedrate, laserOn |-> path.laserOn, power |-> path.power,
     code |-> path.command.code, params |-> path.command.params,
     comment |-> path.command.comment]

SegmentValues(ps) == [i \in 1..Len(ps) |-> SegmentValue(ps[i])]

\* C2: empty, blank, comment-only and command-less lines have no effect: the
\* segments parsed from a text are those parsed from the text without them
IgnoredLinesHaveNoEffect ==
    parsed => SegmentValues(paths) = SegmentValues(getPaths(parseGCode(WithoutIgnorable(gcode))))

\* a parsed text with an ignorable line between two move lines
IgnoredLinesWitness ==
    /\ parsed
    /\ Len(paths) = 2
    /\ LET ls == split(gcode)
       IN  Len(ls) = 3 /\ ~Ignorable(ls[1]) /\ Ignorable(ls[2]) /\ ~Ignorable(ls[3])

Max(S) == CHOOSE m \in S : \A x \in S : x <= m

\* the position in commands of the command that produced segment i
CommandIndex(i) == CHOOSE k \in 1..Len(commands) : commands[k] = paths[i].command

\* C3: every segment carries the modal state at its command: the feed rate
\* of the most recent F parameter at or before it (undefined if none), and
\* the laser state and power of the most recent M3 / M5 before it
ModalSnapshot ==
    parsed =>
      \A i \in 1..Len(paths) :
        LET k == CommandIndex(i)
            fs == {j \in 1..k : HasParam(commands[j], "F")}
            ms == {j \in 1..(k - 1) : commands[j].code \in {M3, M5}}
        IN  /\ paths[i].feedrate =
                 (IF fs = {} THEN Undefined ELSE commands[Max(fs)].params["F"])
            /\ paths[i].laserOn = (ms # {} /\ commands[Max(ms)].code = M3)
            /\ (ms # {} /\ commands[Max(ms)].code = M3 /\ HasParam(commands[Max(ms)], "S"))
                 => paths[i].power = commands[Max(ms)].params["S"]

\* a segment that inherits its feed rate from an earlier line, with the
\* laser switched on before it
ModalSnapshotWitness ==
    /\ parsed
    /\ \E i \in 1..Len(paths) :
         /\ ~HasParam(paths[i].command, "F")
         /\ paths[i].feedrate # Undefined
         /\ paths[i].laserOn
         /\ paths[i].power # Undefined

Endpoints(ps) ==
    {ps[i].start : i \in 1..Len(ps)} \cup {ps[i].end : i \in 1..Len(ps)}

\* C4: the bounding box is, per axis, the minimum and the maximum over the
\* start and end points of all segments; for no segments it is the
\* sentinel min = {+inf,+inf}, max = {-inf,-inf}
BoundingBoxCorrect ==
    out.op = "getBoundingBox" =>
      LET E == Endpoints(out.paths)
          b == out.box
      IN  IF E = {}
          THEN b = [min |-> [x |-> Infinity, y |-> Infinity],
                    max |-> [x |-> NegInfinity, y |-> NegInfinity]]
          ELSE /\ \A e \in E : /\ RLeq(b.min.x, e.x) /\ RLeq(e.x, b.max.x)
                               /\ RLeq(b.min.y, e.y) /\ RLeq(e.y, b.max.y)
               /\ \E e \in E : e.x = b.min.x
               /\ \E e \in E : e.x = b.max.x
               /\ \E e \in E : e.y = b.min.y
               /\ \E e \in E : e.y = b.max.y

\* a box of several segments whose bounds come from different points, one
\* of them the start of the first segment
BoundingBoxWitness ==
    /\ out.op = "getBoundingBox"
    /\ Len(out.paths) >= 2
    /\ RLess(out.box.min.x, out.box.max.x)
    /\ RLess(out.box.min.y, out.box.max.y)
    /\ out.box.min.x = Zero
    /\ RLess(out.box.min.y, Zero)

RECURSIVE SumOfSet(_)
SumOfSet(S) ==
    IF S = {} THEN Origin
    ELSE LET e == CHOOSE e \in S : TRUE
             rest == SumOfSet(S \ {e})
         IN  [x |-> RAdd(e.x, rest.x), y |-> RAdd(e.y, rest.y)]

MeanOfSet(S) ==
    LET sum == SumOfSet(S)
        count == [n |-> Cardinality(S), d |-> 1]
    IN  [x |-> RDiv(sum.x, count), y |-> RDiv(sum.y, count)]

\* start and end points in the order the segments list them
RECURSIVE EndpointSeq(_)
EndpointSeq(ps) ==
    IF ps = <<>> THEN <<>>
    ELSE <<Head(ps).start, Head(ps).end>> \o EndpointSeq(Tail(ps))

\* one point per key of coordinates rounded to 4 decimals: the last listed
RoundedRepresentatives(ps) ==
    LET es == EndpointSeq(ps)
    IN  {es[i] : i \in {j \in 1..Len(es) :
                          \A m \in (j + 1)..Len(es) : pointKey(es[m]) # pointKey(es[j])}}

\* C5 as stated: the centroid is the mean of the set of distinct endpoint
\* positions, {0,0} for no segments
CentroidOfDistinctPositions ==
    out.op = "getCentroid" =>
      out.centroid = IF out.paths = <<>> THEN Origin
                     ELSE MeanOfSet(Endpoints(out.paths))

\* C5 amended: the centroid is the mean of the endpoint positions
\* deduplicated by their coordinates rounded to 4 decimals, one point per
\* rounded key (the last one listed), so that a point shared by consecutive
\* segments counts once; {0,0} for no segments
CentroidOfRoundedPositions ==
    out.op = "getCentroid" =>
      /\ out.centroid = IF out.paths = <<>> THEN Origin
                        ELSE MeanOfSet(RoundedRepresentatives(out.paths))
      /\ Cardinality(RoundedRepresentatives(out.paths)) =
           Cardinality({pointKey(e) : e \in Endpoints(out.paths)})

\* a centroid of several segments with shared joints and with two distinct
\* positions that round to the same key
CentroidWitness ==
    /\ out.op = "getCentroid"
    /\ Len(out.paths) >= 2
    /\ \E e1, e2 \in Endpoints(out.paths) : e1 # e2 /\ pointKey(e1) = pointKey(e2)
    /\ Cardinality(Endpoints(out.paths)) >= 3

Dx(path) == RAbs(RSub(path.end.x, path.start.x))
Dy(path) == RAbs(RSub(path.end.y, path.start.y))

\* C6: orientation law: with axis X a horizontal controlled segment has
\* correction factor 0 and a vertical one the full coefficient; with axis Y
\* the roles are swapped
OrientationLaw ==
    out.op = "applyCorrection" =>
      \A i \in 1..Len(out.result.originalPaths) :
        LET path == out.result.originalPaths[i]
            factor == out.result.correctionFactors[i]
            horizontal == Dy(path) = Zero /\ RLess(Zero, Dx(path))
            vertical == Dx(path) = Zero /\ RLess(Zero, Dy(path))
        IN  ~path.isRapid =>
              /\ horizontal => factor = IF out.axis = "X" THEN Zero ELSE out.coefficient
              /\ vertical => factor = IF out.axis = "X" THEN out.coefficient ELSE Zero

\* a correction with a positive coefficient of a text with a horizontal and
\* a vertical controlled segment
OrientationLawWitness ==
    /\ out.op = "applyCorrection"
    /\ out.coefficient # Zero
    /\ out.axis = "X"
    /\ \E i, j \in 1..Len(out.result.originalPaths) :
         LET p == out.result.originalPaths[i]
             q == out.result.originalPaths[j]
         IN  /\ ~p.isRapid /\ Dy(p) = Zero /\ RLess(Zero, Dx(p))
             /\ out.result.correctionFactors[i] = Zero
             /\ ~q.isRapid /\ Dx(q) = Zero /\ RLess(Zero, Dy(q))
             /\ out.result.correctionFactors[j] = out.coefficient

\* C7: at coefficient 0 and axis X all correction factors are 0 and every
\* corrected segment has the feed rate of the original segment
NoOpAtCoefficientZero ==
    (out.op = "applyCorrection" /\ out.coefficient = Zero /\ out.axis = "X") =>
      /\ \A i \in 1..Len(out.result.correctionFactors) :
           out.result.correctionFactors[i] = Zero
      /\ \A i \in 1..Len(out.result.originalPaths) :
           out.result.correctedPaths[i].feedrate = out.result.originalPaths[i].feedrate

\* the feed-rate token of a line as the parser reads it: the last match of
\* F<number> before the comment, [from |-> 0] when the line has none
RECURSIVE LastFeedrateSpan(_, _, _)
LastFeedrateSpan(clean, i, span) ==
    IF i > Len(clean) THEN span
    ELSE IF clean[i] \in ParamLetters \cup PowerLetters /\ NumberEnd(clean, i + 1) # 0
         THEN LastFeedrateSpan(clean, NumberEnd(clean, i + 1) + 1,
                IF clean[i] = "F" THEN [from |-> i, to |-> NumberEnd(clean, i + 1)]
                ELSE span)
    ELSE LastFeedrateSpan(clean, i + 1, span)

FeedrateSpan(line) ==
    LET k == indexOf(line, ";")
    IN  LastFeedrateSpan(IF k # 0 THEN Slice(line, 1, k - 1) ELSE line, 1,
                         [from |-> 0, to |-> 0])

\* the line with its feed-rate token replaced by tok, or with tok added
\* before the comment, or at the end when there is no comment
Rewritten(line, tok) ==
    LET span == FeedrateSpan(line)
        k == indexOf(line, ";")
    IN  IF span.from # 0
        THEN Slice(line, 1, span.from - 1) \o tok \o Slice(line, span.to + 1, Len(line))
        ELSE IF k # 0
             THEN Slice(line, 1, k - 1) \o <<" ">> \o tok \o <<" ">> \o Slice(line, k, Len(line))
             ELSE line \o <<" ">> \o tok

\* C8: in the returned text the line of every corrected controlled segment
\* has its feed-rate token replaced by F<rounded corrected feed rate>, or
\* that token added before the comment (at the end without a comment) when
\* the line has none
FeedrateTokenRewritten ==
    out.op = "applyCorrection" =>
      LET inLines == split(out.gcode)
          outLines == split(out.result.correctedGCode)
      IN  \A i \in 1..Len(out.result.originalPaths) :
            LET path == out.result.originalPaths[i]
                n == path.command.lineNumber + 1
            IN  ~path.isRapid =>
                  outLines[n] = Rewritten(inLines[n],
                                  feedrateToken(out.result.correctedPaths[i].feedrate))

\* a line whose command is a controlled move
CarriesControlledMove(line) == parseCommand(CleanPart(line), 0, NoComment).code = G1

\* C9: every line of the input that does not carry a controlled move is
\* line for line identical in the returned text
OtherLinesUnchanged ==
    out.op = "applyCorrection" =>
      LET inLines == split(out.gcode)
          outLines == split(out.result.correctedGCode)
      IN  \A n \in 1..Len(inLines) :
            ~CarriesControlledMove(inLines[n]) =>
              n <= Len(outLines) /\ outLines[n] = inLines[n]

\* a correction that rewrote a controlled line standing between a rapid
\* line and a comment line
OtherLinesUnchangedWitness ==
    /\ out.op = "applyCorrection"
    /\ out.coefficient # Zero
    /\ LET inLines == split(out.gcode)
           outLines == split(out.result.correctedGCode)
       IN  /\ Len(inLines) = 3
           /\ parseCommand(CleanPart(inLines[1]), 0, NoComment).code = G0
           /\ CarriesControlledMove(inLines[2])
           /\ outLines[2] # inLines[2]
           /\ indexOf(inLines[3], ";") = 1

\* C10: split on newline, the returned text has as many lines as the input
LineCountPreserved ==
    out.op = "applyCorrection" =>
      Len(split(out.result.correctedGCode)) = Len(split(out.gcode))

\* C11: a correction changes nothing but the feed rate of controlled
\* segments: a rapid segment is copied with every field unchanged and has
\* correction factor 0, a controlled segment keeps its start, end and
\* isRapid
OnlyFeedrateChanges ==
    out.op = "applyCorrection" =>
      \A i \in 1..Len(out.result.originalPaths) :
        LET original == out.result.originalPaths[i]
        IN  /\ i <= Len(out.result.correctedPaths)
            /\ i <= Len(out.result.correctionFactors)
            /\ IF original.isRapid
               THEN /\ out.result.correctedPaths[i] = original
                    /\ out.result.correctionFactors[i] = Zero
               ELSE /\ out.result.correctedPaths[i].start = original.start
                    /\ out.result.correctedPaths[i].end = original.end
                    /\ out.result.correctedPaths[i].isRapid = original.isRapid

\* a correction of a text with a rapid move and a controlled move whose
\* feed rate it changed
OnlyFeedrateChangesWitness ==
    /\ out.op = "applyCorrection"
    /\ \E i, j \in 1..Len(out.result.originalPaths) :
         /\ out.result.originalPaths[i].isRapid
         /\ out.result.originalPaths[i].start # out.result.originalPaths[i].end
         /\ ~out.result.originalPaths[j].isRapid
         /\ out.result.correctedPaths[j].feedrate # out.result.originalPaths[j].feedrate
         /\ out.result.originalPaths[j].feedrate # Undefined

\* C12: the corrected segments and the correction factors are as many as
\* the original segments
ResultLengths ==
    out.op = "applyCorrection" =>
      /\ Len(out.result.correctedPaths) = Len(out.result.originalPaths)
      /\ Len(out.result.correctionFactors) = Len(out.result.originalPaths)

\* a correction of three segments, rapid and controlled
ResultLengthsWitness ==
    /\ out.op = "applyCorrection"
    /\ Len(out.result.originalPaths) = 3
    /\ Len(out.result.correctionFactors) = 3
    /\ \E i, j \in 1..3 : /\ out.result.originalPaths[i].isRapid
                          /\ ~out.result.originalPaths[j].isRapid

\* correctionFactors[i] lies in [0, coefficient]
FactorInRange(i) ==
    /\ RLeq(Zero, out.result.correctionFactors[i])
    /\ RLeq(out.result.correctionFactors[i], out.coefficient)

\* the corrected feed rate of segment i is originalFeedrate * (1 - factor),
\* originalFeedrate being the feed rate of the segment, 0 when it has none
FeedrateScaled(i) ==
    out.result.correctedPaths[i].feedrate =
      RMul(feedrateOrZero(out.result.originalPaths[i]),
           RSub(One, out.result.correctionFactors[i]))

CoefficientInRange == RLeq(Zero, out.coefficient) /\ RLess(out.coefficient, One)

\* C13 as stated: for a coefficient in [0, 1) every correction factor lies
\* in [0, coefficient] and the corrected feed rate of a controlled segment
\* is originalFeedrate * (1 - factor), never greater than the original feed
\* rate and never negative
FeedrateReduced ==
    (out.op = "applyCorrection" /\ CoefficientInRange) =>
      \A i \in 1..Len(out.result.originalPaths) :
        /\ FactorInRange(i)
        /\ ~out.result.originalPaths[i].isRapid =>
             /\ FeedrateScaled(i)
             /\ RLeq(out.result.correctedPaths[i].feedrate,
                     feedrateOrZero(out.result.originalPaths[i]))
             /\ RLeq(Zero, out.result.correctedPaths[i].feedrate)

\* C13 amended: for a coefficient in [0, 1) every correction factor lies in
\* [0, coefficient] and the corrected feed rate of a controlled segment is
\* originalFeedrate * (1 - factor); it lies between 0 and the original feed
\* rate, so it is never greater and never negative when the original feed
\* rate is not negative, and negative and never smaller when it is
FeedrateScaledTowardsZero ==
    (out.op = "applyCorrection" /\ CoefficientInRange) =>
      \A i \in 1..Len(out.result.originalPaths) :
        /\ FactorInRange(i)
        /\ ~out.result.originalPaths[i].isRapid =>
             LET originalFeedrate == feedrateOrZero(out.result.originalPaths[i])
                 correctedFeedrate == out.result.correctedPaths[i].feedrate
             IN  /\ FeedrateScaled(i)
                 /\ IF RLeq(Zero, originalFeedrate)
                    THEN /\ RLeq(correctedFeedrate, originalFeedrate)
                         /\ RLeq(Zero, correctedFeedrate)
                    ELSE /\ RLeq(originalFeedrate, correctedFeedrate)
                         /\ RLess(correctedFeedrate, Zero)

\* a correction with a positive factor that lowered a positive feed rate
\* and scaled a negative one
FeedrateScaledWitness ==
    /\ out.op = "applyCorrection"
    /\ CoefficientInRange
    /\ \E i, j \in 1..Len(out.result.originalPaths) :
         /\ ~out.result.originalPaths[i].isRapid
         /\ RLess(Zero, out.result.correctionFactors[i])
         /\ RLess(Zero, out.result.correctedPaths[i].feedrate)
         /\ RLess(out.result.correctedPaths[i].feedrate,
                  out.result.originalPaths[i].feedrate)
         /\ ~out.result.originalPaths[j].isRapid
         /\ out.result.originalPaths[j].feedrate # Undefined
         /\ RLess(out.result.originalPaths[j].feedrate, Zero)
         /\ RLess(out.result.originalPaths[j].feedrate,
                  out.result.correctedPaths[j].feedrate)

\* C14: for an empty segment list estimateTime returns exactly
\* {totalTime: 0, rapidTime: 0, cuttingTime: 0}, with no other key,
\* whatever the acceleration
EmptyListResult ==
    (out.op = "estimateTime" /\ Len(out.paths) = 0) =>
      /\ DOMAIN out.result = {"totalTime", "rapidTime", "cuttingTime"}
      /\ out.result.totalTime = Zero
      /\ out.result.rapidTime = Zero
      /\ out.result.cuttingTime = Zero

\* an estimate of the empty list with a negative acceleration and a
\* non-empty originalPaths
EmptyListWitness ==
    /\ out.op = "estimateTime"
    /\ out.paths = <<>>
    /\ RLess(out.acceleration, Zero)
    /\ out.originalPaths.defined
    /\ Len(out.originalPaths.paths) > 0

\* the time segment i of ps adds to the totals
TimeOf(ps, i, acceleration) ==
    IF ps[i].start = ps[i].end THEN Zero ELSE segmentTimeAt(ps, i, acceleration)

\* the sum of the times of the segments of ps from i on whose isRapid is kind
RECURSIVE TimeOfKind(_, _, _, _)
TimeOfKind(ps, i, acceleration, kind) ==
    IF i > Len(ps) THEN Zero
    ELSE RAdd(IF ps[i].isRapid = kind THEN TimeOf(ps, i, acceleration) ELSE Zero,
              TimeOfKind(ps, i + 1, acceleration, kind))

SavingsNonNegative ==
    (out.op = "estimateTime" /\ out.originalPaths.defined) =>
      /\ "timeSavings" \in DOMAIN out.result
      /\ out.result.timeSavings # Undefined
      /\ RLeq(Zero, out.result.timeSavings)

\* the list with the feed rate stored on every rapid segment set to f
WithRapidFeedrate(ps, f) ==
    [i \in 1..Len(ps) |-> IF ps[i].isRapid THEN [ps[i] EXCEPT !.feedrate = f]
                          ELSE ps[i]]

\* C17: the feed rates stored on rapid segments have no effect on rapidTime
\* and totalTime: an input that differs only in them has the same two times
RapidFeedrateIgnored ==
    out.op = "estimateTime" =>
      \A f \in {Undefined, Rat(2400, 1)} :
        LET other == estimateTime(WithRapidFeedrate(out.paths, f), out.acceleration,
                                  out.originalPaths)
        IN  /\ other.rapidTime = out.result.rapidTime
            /\ other.totalTime = out.result.totalTime

\* the sum of the times of the segments of ps from i on
RECURSIVE TimeOfAll(_, _, _)
TimeOfAll(ps, i, acceleration) ==
    IF i > Len(ps) THEN Zero
    ELSE RAdd(TimeOf(ps, i, acceleration), TimeOfAll(ps, i + 1, acceleration))

\* C18: a segment of length zero adds nothing to totalTime, rapidTime and
\* cuttingTime, which are the sums over the other segments, and nothing is
\* divided by zero because of it: the three times are finite numbers
ZeroLengthAddsNothing ==
    out.op = "estimateTime" =>
      /\ out.result.totalTime.d # 0
      /\ out.result.rapidTime.d # 0
      /\ out.result.cuttingTime.d # 0
      /\ out.result.totalTime = TimeOfAll(out.paths, 1, out.acceleration)
      /\ (\A i \in 1..Len(out.paths) : out.paths[i].start = out.paths[i].end) =>
           /\ out.result.totalTime = Zero
           /\ out.result.rapidTime = Zero
           /\ out.result.cuttingTime = Zero

\* an estimate of a list with a segment of length zero between two cutting
\* segments that take time
ZeroLengthWitness ==
    /\ out.op = "estimateTime"
    /\ RLess(Zero, out.acceleration)
    /\ Len(out.paths) = 3
    /\ out.paths[2].start = out.paths[2].end
    /\ out.paths[1].start # out.paths[1].end
    /\ ~out.paths[1].isRapid /\ ~out.paths[3].isRapid
    /\ RLess(Zero, out.result.totalTime)
    /\ out.result.totalTime =
         RAdd(segmentTimeAt(out.paths, 1, out.acceleration),
              segmentTimeAt(out.paths, 3, out.acceleration))

\* C19: a list estimated against the same list with the feed rate of one
\* segment halved (so the list is the original with that feed rate doubled)
\* has originalTotalTime >= totalTime
FasterIsNotSlower ==
    (out.op = "estimateTime" /\ out.originalPaths.defined) =>
      \A i \in 1..Len(out.paths) :
        (/\ out.paths[i].feedrate # Undefined
         /\ out.originalPaths.paths = WithFeedrateHalved(out.paths, i)) =>
          RLeq(out.result.totalTime, out.result.originalTotalTime)

\* C20: with an acceleration <= 0 every segment takes zero time: totalTime,
\* rapidTime and cuttingTime are 0
NonPositiveAccelerationTakesNoTime ==
    (out.op = "estimateTime" /\ RLeq(out.acceleration, Zero)) =>
      /\ out.result.totalTime = Zero
      /\ out.result.rapidTime = Zero
      /\ out.result.cuttingTime = Zero
      /\ \A i \in 1..Len(out.paths) :
           TimeOf(out.paths, i, out.acceleration) = Zero

\* an estimate with a negative acceleration of a list that turns a corner
\* between two cutting segments, followed by a rapid segment
NonPositiveAccelerationWitness ==
    /\ out.op = "estimateTime"
    /\ RLess(out.acceleration, Zero)
    /\ Len(out.paths) = 3
    /\ ~out.paths[1].isRapid /\ ~out.paths[2].isRapid /\ out.paths[3].isRapid
    /\ pathDirection(out.paths[1]) # pathDirection(out.paths[2])
    /\ \A i \in 1..3 : out.paths[i].start # out.paths[i].end
    /\ entryVelocityAt(out.paths, 2, out.acceleration) = NaN

\* the command code of a line, <<>> when it has none
CodeOf(line) == parseCommand(CleanPart(line), 0, NoComment).code

\* the lines of ls whose command is G0 or G1, in order
RECURSIVE MoveLines(_)
MoveLines(ls) ==
    IF ls = <<>> THEN <<>>
    ELSE IF CodeOf(Head(ls)) \in {G0, G1} THEN <<Head(ls)>> \o MoveLines(Tail(ls))
    ELSE MoveLines(Tail(ls))

\* C22: parseGCode emits one segment for each line whose command is G0 or
\* G1, in line order (segment k is rapid exactly when the k-th such line is
\* G0 and ends at the coordinates that line gives), also when the move
\* changes no coordinate, and no segment for any other line
OneSegmentPerMove ==
    parsed =>
      LET moves == MoveLines(split(gcode))
      IN  /\ Len(paths) = Len(moves)
          /\ \A k \in 1..Len(moves) :
               LET command == parseCommand(CleanPart(moves[k]), 0, NoComment)
               IN  /\ paths[k].isRapid = (command.code = G0)
                   /\ HasParam(command, "X") => paths[k].end.x = command.params["X"]
                   /\ HasParam(command, "Y") => paths[k].end.y = command.params["Y"]

\* a parsed text of a move, the same move again and a line with another
\* G-code or an M-code: two segments, the second of length zero
OneSegmentPerMoveWitness ==
    /\ parsed
    /\ Len(split(gcode)) = 3
    /\ Len(paths) = 2
    /\ paths[1].start # paths[1].end
    /\ paths[2].start = paths[2].end
    /\ CodeOf(split(gcode)[3]) \notin {<<>>, G0, G1}

\* the junction velocity between segments i and i + 1 of ps
JunctionVelocity(ps, i, acceleration) ==
    calculateJunctionVelocity(pathDirection(ps[i]), pathDirection(ps[i + 1]),
                              feedrateOrZero(ps[i]), feedrateOrZero(ps[i + 1]),
                              acceleration)

\* the entry and exit velocities C23 states for segment i
StatedEntryVelocity(ps, i, acceleration) ==
    IF i = 1 \/ ps[i - 1].isRapid # ps[i].isRapid THEN Zero
    ELSE JunctionVelocity(ps, i - 1, acceleration)

StatedExitVelocity(ps, i, acceleration) ==
    IF i = Len(ps) \/ ps[i + 1].isRapid # ps[i].isRapid THEN Zero
    ELSE JunctionVelocity(ps, i, acceleration)

\* the time of the segments of ps from i on, timed with the stated velocities
RECURSIVE StatedTime(_, _, _)
StatedTime(ps, i, acceleration) ==
    IF i > Len(ps) THEN Zero
    ELSE RAdd(IF ps[i].start = ps[i].end THEN Zero
              ELSE calculateSegmentTimeWithJunction(
                     pathDistance(ps[i]), feedrateOrZero(ps[i]), acceleration,
                     StatedEntryVelocity(ps, i, acceleration),
                     StatedExitVelocity(ps, i, acceleration), ps[i].isRapid),
              StatedTime(ps, i + 1, acceleration))

\* C23: a segment is timed with entry velocity 0 when it is the first
\* segment or follows a segment of the other kind, and with exit velocity 0
\* when it is the last segment or precedes a segment of the other kind; only
\* between neighbours of the same kind is the junction velocity used
StopAtKindChange ==
    out.op = "estimateTime" =>
      /\ \A i \in 1..Len(out.paths) :
           /\ entryVelocityAt(out.paths, i, out.acceleration) =
                StatedEntryVelocity(out.paths, i, out.acceleration)
           /\ exitVelocityAt(out.paths, i, out.acceleration) =
                StatedExitVelocity(out.paths, i, out.acceleration)
      /\ out.result.totalTime = StatedTime(out.paths, 1, out.acceleration)

\* an estimate of two cutting segments followed by a rapid segment with a
\* feed rate: the second segment enters at the junction velocity and stops
\* at its end, where the junction velocity would not be 0
StopAtKindChangeWitness ==
    /\ out.op = "estimateTime"
    /\ RLess(Zero, out.acceleration)
    /\ Len(out.paths) = 3
    /\ ~out.paths[1].isRapid /\ ~out.paths[2].isRapid /\ out.paths[3].isRapid
    /\ RLess(Zero, entryVelocityAt(out.paths, 2, out.acceleration))
    /\ exitVelocityAt(out.paths, 2, out.acceleration) = Zero
    /\ RLess(Zero, JunctionVelocity(out.paths, 2, out.acceleration))
    /\ entryVelocityAt(out.paths, 3, out.acceleration) = Zero
    /\ RLess(Zero, out.result.rapidTime)

\* maxVelocity of a segment: its effective feed rate in mm/s
maxVelocityOf(path) ==
    RDiv(IF path.isRapid THEN Rat(5000, 1) ELSE feedrateOrZero(path), Rat(60, 1))

\* v_entry and v_exit of segment i: the velocities after clamping
v_entryAt(ps, i, acceleration) ==
    MathMin(entryVelocityAt(ps, i, acceleration), maxVelocityOf(ps[i]))

v_exitAt(ps, i, acceleration) ==
    MathMin(exitVelocityAt(ps, i, acceleration), maxVelocityOf(ps[i]))

NonZeroLength(path) == path.start # path.end

\* the segment is timed with clamped velocities: it passes the guard on the
\* distance, the effective feed rate and the acceleration
ReachesClamp(path, acceleration) ==
    /\ NonZeroLength(path)
    /\ RLess(Zero, maxVelocityOf(path))
    /\ RLess(Zero, acceleration)

\* C24: for adjacent segments i and i + 1 that are not of zero length, the
\* clamped exit velocity used to time segment i equals the clamped entry
\* velocity used to time segment i + 1
JunctionContinuity ==
    out.op = "estimateTime" =>
      \A i \in 1..(Len(out.paths) - 1) :
        ReachesClamp(out.paths[i], out.acceleration)
          /\ ReachesClamp(out.paths[i + 1], out.acceleration) =>
          v_exitAt(out.paths, i, out.acceleration) =
            v_entryAt(out.paths, i + 1, out.acceleration)

\* an estimate whose first two segments are cutting segments of different
\* feed rates that meet at a positive velocity below the faster one's maximum
JunctionContinuityWitness ==
    /\ out.op = "estimateTime"
    /\ RLess(Zero, out.acceleration)
    /\ Len(out.paths) >= 2
    /\ NonZeroLength(out.paths[1]) /\ NonZeroLength(out.paths[2])
    /\ ~out.paths[1].isRapid /\ ~out.paths[2].isRapid
    /\ maxVelocityOf(out.paths[1]) # maxVelocityOf(out.paths[2])
    /\ RLess(Zero, v_exitAt(out.paths, 1, out.acceleration))
    /\ RLess(v_entryAt(out.paths, 2, out.acceleration), maxVelocityOf(out.paths[2]))
    /\ RLess(Zero, out.result.cuttingTime)

\* ps without its segments of length zero
RECURSIVE WithoutZeroLength(_)
WithoutZeroLength(ps) ==
    IF ps = <<>> THEN <<>>
    ELSE IF NonZeroLength(Head(ps))
         THEN <<Head(ps)>> \o WithoutZeroLength(Tail(ps))
         ELSE WithoutZeroLength(Tail(ps))

\* C28: for a positive acceleration estimateTime returns the same totalTime,
\* rapidTime and cuttingTime as for the list without its segments of length
\* zero
ZeroLengthIsNeutral ==
    out.op = "estimateTime" /\ RLess(Zero, out.acceleration) =>
      LET other == estimateTime(WithoutZeroLength(out.paths), out.acceleration, Missing)
      IN  /\ other.totalTime = out.result.totalTime
          /\ other.rapidTime = out.result.rapidTime
          /\ other.cuttingTime = out.result.cuttingTime

\* C29: a cutting segment whose feed rate is undefined or not positive takes
\* no time, whatever its length and the acceleration: the times are finite
\* and are the sums over the segments of the list
FeedlessCutTakesNoTime ==
    out.op = "estimateTime" =>
      /\ \A i \in 1..Len(out.paths) :
           ~out.paths[i].isRapid /\ RLeq(feedrateOrZero(out.paths[i]), Zero) =>
             TimeOf(out.paths, i, out.acceleration) = Zero
      /\ out.result.totalTime.d # 0 /\ out.result.cuttingTime.d # 0
      /\ out.result.totalTime = TimeOfAll(out.paths, 1, out.acceleration)
      /\ out.result.cuttingTime =
           RSub(out.result.totalTime, out.result.rapidTime)

\* an estimate at a positive acceleration of a cutting segment of positive
\* length without a feed rate and a cutting segment that takes time
FeedlessCutWitness ==
    /\ out.op = "estimateTime"
    /\ RLess(Zero, out.acceleration)
    /\ \E i \in 1..Len(out.paths) :
         /\ ~out.paths[i].isRapid
         /\ out.paths[i].feedrate = Undefined
         /\ NonZeroLength(out.paths[i])
    /\ Len(out.paths) = 2
    /\ RLess(Zero, out.result.cuttingTime)

\* the text t ends with the text u
EndsWith(t, u) == Len(t) >= Len(u) /\ SubSeq(t, Len(t) - Len(u) + 1, Len(t)) = u

\* C27: formatTime prints a time below 60 with one decimal and ' seconds', a
\* time from 60 and below 3600 as '<m> min <r> seg' with m = floor(seconds/60)
\* and r the remaining seconds rounded to an integer in 0..59, and a time from
\* 3600 as '<h> h <m> min' with h = floor(seconds/3600) and m in 0..59
FormatTimeFields ==
    out.op = "formatTime" =>
      LET seconds == out.seconds
      IN  IF RLess(seconds, Rat(60, 1))
          THEN LET number == Slice(out.result, 1, Len(out.result) - 8)
               IN  /\ EndsWith(out.result, <<" ", "s", "e", "c", "o", "n", "d", "s">>)
                   /\ Len(number) >= 3
                   /\ number[Len(number) - 1] = "."
                   /\ \A k \in 1..Len(number) :
                        k # Len(number) - 1 => number[k] \in Digits
                   /\ RLeq(RAbs(RSub(parseFloat(number), seconds)), Rat(1, 20))
          ELSE IF RLess(seconds, Rat(3600, 1))
          THEN LET m == MathFloor(RDiv(seconds, Rat(60, 1)))
                   r == MathRound(RSub(seconds, Rat(60 * m, 1)))
               IN  /\ out.result = NatString(m) \o <<" ", "m", "i", "n", " ">> \o NatString(r) \o <<" ", "s", "e", "g">>
                   /\ r \in 0..59
          ELSE LET h == MathFloor(RDiv(seconds, Rat(3600, 1)))
                   m == MathFloor(RDiv(seconds, Rat(60, 1))) - 60 * h
               IN  /\ out.result = NatString(h) \o <<" ", "h", " ">> \o NatString(m) \o <<" ", "m", "i", "n">>
                   /\ m \in 0..59

EmptyCaseGuarded ==
    out.op = "resetView" /\ out.shown.paths = <<>> => ~out.shown.view.set

M4 == <<"M", "4">>

\* the lines of a text: the pieces between its line feeds
LinesOf(text) ==
    LET feeds == {i \in 1..Len(text) : text[i] = "\n"}
        count == Cardinality(feeds)
        feed(k) == IF k = 0 THEN 0
                   ELSE IF k = count + 1 THEN Len(text) + 1
                   ELSE CHOOSE p \in feeds : Cardinality({q \in feeds : q <= p}) = k
    IN  [k \in 1..(count + 1) |-> Slice(text, feed(k - 1) + 1, feed(k) - 1)]

\* the codes of the commands of the lines ls, in order
IsCode(code) == code # NoCommand.code

CommandCodes(ls) == SelectSeq([i \in 1..Len(ls) |-> CodeOf(ls[i])], IsCode)

\* what a call of generatePattern with the configuration c has to throw
\* according to C21, <<>> when it has to return a program
StatedError(c) ==
    IF c.xAxis.parameterType = c.yAxis.parameterType
    THEN <<"C", "a", "n", "n", "o", "t", " ", "u", "s", "e", " ", "t", "h", "e", " ", "s", "a", "m", "e", " ", "p", "a", "r", "a", "m", "e", "t", "e", "r", " ", "(">> \o TypeText(c.xAxis.parameterType) \o <<")", " ", "o", "n", " ", "b", "o", "t", "h", " ", "a", "x", "e", "s">>
    ELSE IF "power" \notin {c.xAxis.parameterType, c.yAxis.parameterType}
            /\ c.fixedPower = Undefined
    THEN <<"F", "i", "x", "e", "d", " ", "p", "o", "w", "e", "r", " ", "m", "u", "s", "t", " ", "b", "e", " ", "p", "r", "o", "v", "i", "d", "e", "d", " ", "i", "f", " ", "p", "o", "w", "e", "r", " ", "i", "s", " ", "n", "o", "t", " ", "o", "n", " ", "a", "n", "y", " ", "a", "x", "i", "s">>
    ELSE IF "speed" \notin {c.xAxis.parameterType, c.yAxis.parameterType}
            /\ c.fixedSpeed = Undefined
    THEN <<"F", "i", "x", "e", "d", " ", "s", "p", "e", "e", "d", " ", "m", "u", "s", "t", " ", "b", "e", " ", "p", "r", "o", "v", "i", "d", "e", "d", " ", "i", "f", " ", "s", "p", "e", "e", "d", " ", "i", "s", " ", "n", "o", "t", " ", "o", "n", " ", "a", "n", "y", " ", "a", "x", "i", "s">>
    ELSE <<>>

\* C21: generatePattern throws 'Cannot use the same parameter (...) on both
\* axes' when both axes have the same parameter type, otherwise 'Fixed power
\* must be provided...' when power is on no axis and fixedPower is undefined,
\* otherwise 'Fixed speed must be provided...' when speed is on no axis and
\* fixedSpeed is undefined, and returns no text then; every other
\* configuration returns a program
ValidationThrows ==
    out.op = "generatePattern" =>
      IF StatedError(out.config) # <<>>
      THEN /\ out.result.thrown
           /\ out.result.message = StatedError(out.config)
           /\ "text" \notin DOMAIN out.result
      ELSE /\ ~out.result.thrown
           /\ CommandCodes(LinesOf(out.result.text)) # <<>>

\* a call with the same parameter type on both axes and no fixed power: the
\* error about the axes is the one thrown
ValidationThrowsWitness ==
    /\ out.op = "generatePattern"
    /\ ~out.bordered
    /\ out.config.xAxis.parameterType = "speed"
    /\ out.config.yAxis.parameterType = "speed"
    /\ out.config.fixedPower = Undefined
    /\ out.result.thrown
    /\ out.result.message # <<"F", "i", "x", "e", "d", " ", "p", "o", "w", "e", "r", " ", "m", "u", "s", "t", " ", "b", "e", " ", "p", "r", "o", "v", "i", "d", "e", "d", " ", "i", "f", " ", "p", "o", "w", "e", "r", " ", "i", "s", " ", "n", "o", "t", " ", "o", "n", " ", "a", "n", "y", " ", "a", "x", "i", "s">>

\* the laser state after the first k commands: set by M3 and M4, cleared by
\* M5, unknown before the first of them
RECURSIVE LaserAfter(_, _)
LaserAfter(codes, k) ==
    IF k = 0 THEN "unknown"
    ELSE IF codes[k] \in {M3, M4} THEN "on"
    ELSE IF codes[k] = M5 THEN "off"
    ELSE LaserAfter(codes, k - 1)

\* C30: in a program returned by generatePattern the last laser command
\* before every G0 is M5, the last laser command before every G1 is M3 or
\* M4, and the last laser command of the program is M5
LaserOffWhenRapid ==
    out.op = "generatePattern" /\ ~out.result.thrown =>
      LET codes == CommandCodes(LinesOf(out.result.text))
      IN  /\ \A k \in 1..Len(codes) :
               /\ codes[k] = G0 => LaserAfter(codes, k - 1) = "off"
               /\ codes[k] = G1 => LaserAfter(codes, k - 1) = "on"
          /\ LaserAfter(codes, Len(codes)) = "off"

\* a program of two rows of two squares: rapid moves follow controlled ones
LaserOffWitness ==
    /\ out.op = "generatePattern"
    /\ ~out.bordered
    /\ ~out.result.thrown
    /\ out.config.xAxis.steps = 2
    /\ out.config.yAxis.steps = 2
    /\ LET codes == CommandCodes(LinesOf(out.result.text))
       IN  /\ Cardinality({k \in 1..Len(codes) : codes[k] = G1}) = 16
           /\ Cardinality({k \in 1..Len(codes) : codes[k] = G0}) = 6
           /\ Cardinality({k \in 1..Len(codes) : codes[k] = M4}) = 4

====
